---- MODULE Spec2Model ----
(***************************************************************************)
(* Verification model of the asynchronous scheduling and memory core:     *)
(*   - HighPerformanceAllocator (src/cpp/src/core/memory/memory_manager.cpp)*)
(*   - Task coroutines, sleep_for, yield (nex/core/async_types.hpp)        *)
(*   - AsyncScheduler::schedule / schedule_impl (nex/core/scheduler.hpp)   *)
(*   - ConcurrencyLimiter (declared in async_scheduler.hpp / scheduler.hpp)*)
(* Each component has its own specification over the shared variables; the *)
(* variables of the other components stay at their initial values.         *)
(***************************************************************************)
EXTENDS Integers, Sequences, FiniteSets, TLC

VARIABLES
    \* ---- HighPerformanceAllocator::Impl ----
    pool_size_,          \* size of the arena handed to the constructor
    free_blocks_,        \* std::vector<FreeBlock>, in vector order
    allocated_blocks_,   \* std::unordered_map<void*, size_t>
    allocated_size_,     \* size_t allocated_size_
    stats_,              \* MemoryStats (counters only)
    \* ---- callers of the allocator ----
    call,                \* the last call on the allocator: operation and returned pointer
    live,                \* allocations returned to callers and not yet given back
    thr,                 \* the threads of the stress test
    \* ---- Task coroutines and AsyncScheduler ----
    scn,                 \* the program the main thread runs
    frames,              \* the coroutine frames, in order of creation
    stack,               \* the frames the main thread is executing, innermost last
    mainT,               \* the main thread: position, the Task it holds, what get() gave
    tasks_,              \* WorkStealingPool::tasks_
    shutdown_,           \* WorkStealingPool::shutdown_
    worker,              \* the pool's worker thread
    future,              \* shared state of the std::promise / std::future pair
    now,                 \* std::chrono::steady_clock, in milliseconds
    \* ---- ConcurrencyLimiter ----
    max_permits_,        \* the limit given to the constructor
    current_permits_,    \* permits in use
    waiting_queue_,      \* the pending acquirers, oldest first
    lim,                 \* the threads that use the limiter
    \* ---- WorkStealingPool and the thread that submits to it ----
    priority_tasks_,     \* std::priority_queue<PriorityTask>, as its vector
    prog,                \* the submissions the calling thread makes, in order
    sub,                 \* the calling thread: position and what each call gave
    started,             \* the tasks the worker has started, in order of start
    \* ---- ObjectPool<T> and its callers ----
    pool_,               \* std::vector<std::unique_ptr<T>>: where each object came from
    max_size_,           \* size_t max_size_
    allocated_count_,    \* std::atomic<size_t> allocated_count_
    acquired_count_,     \* std::atomic<size_t> acquired_count_
    released_count_,     \* std::atomic<size_t> released_count_
    out,                 \* objects of the pool that callers hold
    hist,                \* what has happened to the pool: calls, constructions, ...
    \* ---- Result<T> ----
    input,               \* the arguments the first Result of the chain was made from
    ops,                 \* the map / and_then calls made so far, in order
    cur,                 \* the Result the last call returned
    invoked,             \* the functions the calls have invoked, in order
    \* ---- HighPerformanceMemoryPool::Impl (memory_optimizer.cpp) ----
    pool_base_,          \* address of the arena
    pool_size_bytes_,    \* size of the arena
    mp_free_blocks_,     \* its std::vector<MemoryBlock> free_blocks_
    free_capacity,       \* free_blocks_.capacity()
    used_blocks_,        \* std::vector<MemoryBlock> used_blocks_
    total_allocated_,    \* size_t total_allocated_
    mp_status,           \* "ok", or "crashed" once the process has died
    mp_out,              \* pointers returned to callers and not yet given back
    mp_call,             \* calls made so far and what the last one returned
    \* ---- HighPerformanceAllocator: the process and pointers no longer live ----
    alloc_status,        \* "ok", or "crashed" once a call on the allocator has killed the process
    given,               \* pointers allocate has returned and callers have given back
    tried,               \* the kinds of pointers that are not live deallocate was called with
    \* ---- WorkStealingPool with several workers ----
    local_,              \* the tasks each worker has taken from the shared queues and not started
    wk,                  \* the workers of the pool: what each is doing
    runs,                \* the executions of tasks: which task, by which worker, how it got it
    \* ---- ObjectPool<T> used by several threads ----
    mutex_,              \* ObjectPool::mutex_: the thread that holds it, 0 when free
    othr,                \* the threads that use the pool: position, object in flight, objects held
    \* ---- MemoryManager ----
    initialized_,        \* std::atomic<bool> initialized_
    config_,             \* the stored configuration: the text of allocator_pool_size_mb
    gpu_pool_,           \* std::unique_ptr<GPUMemoryPool>: the object it owns, 0 when null
    memory_mapper_,      \* std::unique_ptr<MemoryMapper>: the object it owns, 0 when null
    allocator_,          \* std::unique_ptr<HighPerformanceAllocator>: the object it owns, 0 when null
    config_mutex_,       \* the thread that holds config_mutex_, 0 when free
    mgr,                 \* the threads that call the manager: position, argument, last result
    heap,                \* objects made so far, objects destroyed, allocator references in use
    \* ---- SessionManager::Impl (memory_optimizer.cpp) ----
    sessions_,           \* std::unordered_map: session id -> memory_usage and last_access
    total_memory_usage_, \* size_t total_memory_usage_
    max_sessions_,       \* size_t max_sessions_
    session_timeout_,    \* std::chrono::minutes session_timeout_
    sm_now,              \* std::chrono::steady_clock, in minutes
    sm_call              \* calls made so far and what the last one returned

allocVars == <<pool_size_, free_blocks_, allocated_blocks_, allocated_size_, stats_>>
callerVars == <<call, live, thr>>
taskVars == <<scn, frames, stack, mainT, tasks_, shutdown_, worker, future, now>>
limVars == <<max_permits_, current_permits_, waiting_queue_, lim>>
poolVars == <<priority_tasks_, prog, sub, started>>
objVars == <<pool_, max_size_, allocated_count_, acquired_count_, released_count_,
             out, hist>>
resVars == <<input, ops, cur, invoked>>
mpVars == <<pool_base_, pool_size_bytes_, mp_free_blocks_, free_capacity,
            used_blocks_, total_allocated_, mp_status, mp_out, mp_call>>
lifeVars == <<alloc_status, given, tried>>
stealVars == <<local_, wk, runs>>
concVars == <<mutex_, othr>>
mgrVars == <<initialized_, config_, gpu_pool_, memory_mapper_, allocator_, config_mutex_, mgr, heap>>
sessVars == <<sessions_, total_memory_usage_, max_sessions_, session_timeout_, sm_now, sm_call>>
vars == <<pool_size_, free_blocks_, allocated_blocks_, allocated_size_, stats_,
          call, live, thr,
          scn, frames, stack, mainT, tasks_, shutdown_, worker, future, now,
          max_permits_, current_permits_, waiting_queue_, lim,
          priority_tasks_, prog, sub, started,
          pool_, max_size_, allocated_count_, acquired_count_, released_count_,
          out, hist,
          input, ops, cur, invoked,
          pool_base_, pool_size_bytes_, mp_free_blocks_, free_capacity,
          used_blocks_, total_allocated_, mp_status, mp_out, mp_call,
          alloc_status, given, tried,
          local_, wk, runs,
          mutex_, othr,
          initialized_, config_, gpu_pool_, memory_mapper_, allocator_, config_mutex_, mgr, heap,
          sessions_, total_memory_usage_, max_sessions_, session_timeout_, sm_now, sm_call>>

\* what the actions of one component leave alone
notAllocator == <<taskVars, limVars, poolVars, objVars, resVars, mpVars, lifeVars, stealVars, concVars, mgrVars, sessVars>>
notTask == <<allocVars, callerVars, limVars, poolVars, objVars, resVars, mpVars, lifeVars, stealVars, concVars, mgrVars, sessVars>>
notLimiter == <<allocVars, callerVars, taskVars, poolVars, objVars, resVars, mpVars, lifeVars, stealVars, concVars, mgrVars, sessVars>>
notPool == <<allocVars, callerVars, limVars, objVars, resVars, mpVars,
             scn, frames, stack, mainT, future, now, lifeVars, stealVars, concVars, mgrVars, sessVars>>
notObjectPool == <<allocVars, callerVars, taskVars, limVars, poolVars, resVars,
                   mpVars, lifeVars, stealVars, concVars, mgrVars, sessVars>>
notResult == <<allocVars, callerVars, taskVars, limVars, poolVars, objVars,
               mpVars, lifeVars, stealVars, concVars, mgrVars, sessVars>>
notMemoryPool == <<allocVars, callerVars, taskVars, limVars, poolVars, objVars,
                   resVars, lifeVars, stealVars, concVars, mgrVars, sessVars>>

----------------------------------------------------------------------------
(* Bounds of the model *)

\* width of size_t in the model; sizes are computed modulo 2^WordBits
WordBits == 12
\* arena size of the general allocator specification
PoolSize == 8
\* successful allocate calls explored per behaviour
MaxAllocs == 3
\* threads and iterations of the stress test
NumThreads == 3
Iterations == 2

(* Program constants *)

\* the block size the stress test allocates
StressBlock == 1024
\* default size of the manager's allocator pool, in MB
DefaultPoolMb == 64
\* SessionManager::Impl::memory_limit_mb_
MemoryLimitMb == 1024
\* default alignment, sizeof(void* )
DefaultAlignment == 8
\* nullptr; pointers are offsets from the (page aligned) arena base
NULL == -1

MaxWord == 2 ^ WordBits

\* request sizes: everything around the arena size, half of the word range
\* and the top of the word range, where size + alignment - 1 wraps around
Sizes == (0 .. PoolSize + 1) \cup {MaxWord \div 2, MaxWord - 1}
Alignments == {1, 2, 4, DefaultAlignment}

----------------------------------------------------------------------------
(* HighPerformanceAllocator::Impl *)

RemoveAt(s, i) == SubSeq(s, 1, i - 1) \o SubSeq(s, i + 1, Len(s))

\* size_t aligned_size = (size + alignment - 1) & ~(alignment - 1);
AlignedSize(size, alignment) ==
    LET t == (size + alignment - 1) % MaxWord
    IN  t - (t % alignment)

\* the first-fit scan of the free list: index of the first block with
\* it->size >= aligned_size, 0 when the loop runs off the end
RECURSIVE FirstFitFrom(_, _, _)
FirstFitFrom(fb, aligned_size, i) ==
    IF i > Len(fb) THEN 0
    ELSE IF fb[i].size >= aligned_size THEN i
    ELSE FirstFitFrom(fb, aligned_size, i + 1)

FirstFit(fb, aligned_size) == FirstFitFrom(fb, aligned_size, 1)

\* erase the chosen block and push the remainder when the block is too large
SplitBlock(fb, i, aligned_size, alignment) ==
    LET ptr == fb[i].ptr
        block_size == fb[i].size
        erased == RemoveAt(fb, i)
    IN  IF block_size > (aligned_size + alignment) % MaxWord
        THEN Append(erased, [ptr |-> ptr + aligned_size,
                             size |-> block_size - aligned_size])
        ELSE erased

\* allocated_blocks_[ptr] = aligned_size
MapPut(m, k, v) == [p \in DOMAIN m \cup {k} |-> IF p = k THEN v ELSE m[p]]
\* allocated_blocks_.erase(it)
MapErase(m, k) == [p \in DOMAIN m \ {k} |-> m[p]]

Max(a, b) == IF a >= b THEN a ELSE b

StatsAfterAllocate(st, aligned_size) ==
    LET usage == (st.current_usage + aligned_size) % MaxWord
    IN  [current_usage |-> usage,
         peak_usage |-> Max(st.peak_usage, usage),
         allocation_count |-> st.allocation_count + 1,
         deallocation_count |-> st.deallocation_count]

StatsAfterDeallocateNoCount(st, block_size) ==
    [st EXCEPT !.current_usage = (st.current_usage - block_size) % MaxWord]

StatsAfterDeallocate(st, block_size) ==
    [st EXCEPT !.current_usage = (st.current_usage - block_size) % MaxWord,
               !.deallocation_count = st.deallocation_count + 1]

\* std::sort by ptr is not stable: every ordering of the blocks that is
\* non-decreasing in ptr is a possible result
RECURSIVE SortedByPtr(_)
SortedByPtr(fb) ==
    IF Len(fb) = 0 THEN {<<>>}
    ELSE LET lo == {i \in 1 .. Len(fb) :
                        \A j \in 1 .. Len(fb) : fb[i].ptr <= fb[j].ptr}
         IN  UNION {{<<fb[i]>> \o rest : rest \in SortedByPtr(RemoveAt(fb, i))}
                        : i \in lo}

\* the merge loop of merge_free_blocks over the sorted vector, from index i
RECURSIVE MergeFrom(_, _)
MergeFrom(fb, i) ==
    IF i >= Len(fb) THEN fb
    ELSE IF fb[i].ptr + fb[i].size = fb[i + 1].ptr
         THEN MergeFrom([RemoveAt(fb, i + 1) EXCEPT
                            ![i].size = fb[i].size + fb[i + 1].size], i)
         ELSE MergeFrom(fb, i + 1)

\* merge_free_blocks on a non-empty vector: the possible resulting vectors
merge_free_blocks(fb) == {MergeFrom(s, 1) : s \in SortedByPtr(fb)}

\* void* allocate(size_t size, size_t alignment), under the mutex
allocate(size, alignment) ==
    LET aligned_size == AlignedSize(size, alignment)
        i == FirstFit(free_blocks_, aligned_size)
    IN  IF i = 0
        THEN /\ call' = [op |-> "allocate", ret |-> NULL]
             /\ UNCHANGED allocVars
        ELSE /\ call' = [op |-> "allocate", ret |-> free_blocks_[i].ptr]
             /\ free_blocks_' = SplitBlock(free_blocks_, i, aligned_size, alignment)
             /\ allocated_blocks_' =
                    MapPut(allocated_blocks_, free_blocks_[i].ptr, aligned_size)
             /\ allocated_size_' = (allocated_size_ + aligned_size) % MaxWord
             /\ stats_' = StatsAfterAllocate(stats_, aligned_size)
             /\ UNCHANGED pool_size_

\* void deallocate(void* ptr, size_t size), under the mutex
deallocate(ptr, size) ==
    /\ call' = [op |-> "deallocate", ret |-> NULL]
    /\ IF ptr # NULL /\ ptr \in DOMAIN allocated_blocks_
       THEN LET block_size == allocated_blocks_[ptr]
            IN  /\ allocated_blocks_' = MapErase(allocated_blocks_, ptr)
                /\ free_blocks_' \in merge_free_blocks(
                       Append(free_blocks_, [ptr |-> ptr, size |-> block_size]))
                /\ allocated_size_' = (allocated_size_ - block_size) % MaxWord
                /\ stats_' = StatsAfterDeallocate(stats_, block_size)
                /\ UNCHANGED pool_size_
       ELSE UNCHANGED allocVars

\* Impl(pool_size): initialize_pool pushes one free block over the arena
InitAllocator(pool_size) ==
    /\ pool_size_ = pool_size
    /\ free_blocks_ = <<[ptr |-> 0, size |-> pool_size]>>
    /\ allocated_blocks_ = <<>>
    /\ allocated_size_ = 0
    /\ stats_ = [current_usage |-> 0, peak_usage |-> 0,
                 allocation_count |-> 0, deallocation_count |-> 0]

\* the allocations callers hold: a bag of [ptr, size] (the size requested)
BagAdd(b, e) ==
    [x \in DOMAIN b \cup {e} |-> IF x \in DOMAIN b
                                  THEN (IF x = e THEN b[x] + 1 ELSE b[x]) ELSE 1]
BagRemove(b, e) ==
    [x \in {y \in DOMAIN b : y # e \/ b[y] > 1} |-> IF x = e THEN b[x] - 1 ELSE b[x]]

NoCall == [op |-> "none", ret |-> NULL]

----------------------------------------------------------------------------
(* Values of the Task model *)

NoResult == [tag |-> "empty", v |-> 0]      \* an empty std::optional result slot
Value(x) == [tag |-> "value", v |-> x]
Nullopt == [tag |-> "nullopt", v |-> 0]     \* std::nullopt returned by timeout
NoException == "none"                       \* a null std::exception_ptr

NoFuture == [ready |-> FALSE, value |-> NoResult, exception |-> NoException]
NoScenario == [kind |-> "none", inner |-> "none", throws |-> FALSE,
               body |-> "none", dur |-> 0, d |-> 0]
MainIdle == [pc |-> "idle", task |-> 0, got |-> NoResult, raised |-> NoException]
WorkerIdle == [pc |-> "idle", throws |-> FALSE]

IdleThreads == [t \in 1 .. NumThreads |-> [pc |-> "idle", iter |-> 0, ptr |-> NULL]]

\* the allocator and its callers in the specifications that do not use them
AllocatorIdle ==
    /\ InitAllocator(PoolSize)
    /\ call = NoCall
    /\ live = <<>>
    /\ thr = IdleThreads

\* threads that use the limiter
LimThreads == 3
\* the limits the limiter is constructed with: 1 .. MaxPermits
MaxPermits == 2

LimThreadIdle ==
    [pc |-> "idle", mode |-> "none", held |-> 0, ret |-> "none",
     guard |-> "none", before |-> 0, exit |-> "none"]

\* the limiter in the specifications that do not use it
LimiterIdle ==
    /\ max_permits_ = 1
    /\ current_permits_ = 0
    /\ waiting_queue_ = <<>>
    /\ lim = [t \in 1 .. LimThreads |-> LimThreadIdle]

\* the thread that submits to the pool, before its first call
SubIdle == [pc |-> "call", at |-> 1, late |-> FALSE, outcome |-> <<>>]

\* the pool's priority queue and its caller in the specifications without them
PoolIdle ==
    /\ priority_tasks_ = <<>>
    /\ prog = <<>>
    /\ sub = SubIdle
    /\ started = <<>>

\* ObjectPool(initial_size, max_size): initial_size objects are built
ObjectPool(initial_size, max_size) ==
    /\ max_size_ = max_size
    /\ pool_ = [i \in 1 .. initial_size |-> "constructor"]
    /\ allocated_count_ = 0
    /\ acquired_count_ = 0
    /\ released_count_ = 0
    /\ out = 0
    /\ hist = [calls |-> 0, constructed |-> initial_size, checkouts |-> 0,
               releases |-> 0, destroyed |-> 0]

\* the object pool in the specifications that do not use it
ObjectPoolIdle == ObjectPool(0, 0)

\* no Result has been made
\* values are written as sequences: an int as <<n>>, a string as its characters
NoValue == <<>>
IntValue(n) == <<n>>
AsInt(value) == value[1]
NoInput == [kind |-> "none", value |-> 0, code |-> "SUCCESS", message |-> ""]
NoResultObject ==
    [type |-> <<>>, has_value |-> FALSE, value |-> NoValue,
     error_code |-> "SUCCESS", error_message |-> ""]

ResultIdle ==
    /\ input = NoInput
    /\ ops = <<>>
    /\ cur = NoResultObject
    /\ invoked = <<>>

\* HighPerformanceMemoryPool::Impl::Impl with the arena at address base: one
\* free block that spans the arena, pushed onto an empty vector
MemoryPool(base, bytes) ==
    /\ pool_base_ = base
    /\ pool_size_bytes_ = bytes
    /\ mp_free_blocks_ = <<[ptr |-> base, size |-> bytes, in_use |-> FALSE]>>
    /\ free_capacity = 1
    /\ used_blocks_ = <<>>
    /\ total_allocated_ = 0
    /\ mp_status = "ok"
    /\ mp_out = {}
    /\ mp_call = [n |-> 0, op |-> "none", ret |-> NULL]

\* the memory pool in the specifications that do not use it
MemoryPoolIdle == MemoryPool(0, 0)

\* the components that only their own specification uses
\* the allocator's process in the specifications that never crash it
LifeIdle ==
    /\ alloc_status = "ok"
    /\ given = {}
    /\ tried = {}

\* the workers of the stealing pool in the specifications without them
StealIdle ==
    /\ local_ = <<>>
    /\ wk = <<>>
    /\ runs = <<>>

\* the threads of the object pool in the specifications without them
ConcIdle ==
    /\ mutex_ = 0
    /\ othr = <<>>

\* the memory manager in the specifications without it
ManagerIdle ==
    /\ initialized_ = FALSE
    /\ config_ = <<>>
    /\ gpu_pool_ = 0
    /\ memory_mapper_ = 0
    /\ allocator_ = 0
    /\ config_mutex_ = 0
    /\ mgr = <<>>
    /\ heap = <<>>

\* the session manager in the specifications without it
SessionIdle ==
    /\ sessions_ = <<>>
    /\ total_memory_usage_ = 0
    /\ max_sessions_ = 0
    /\ session_timeout_ = 0
    /\ sm_now = 0
    /\ sm_call = <<>>

\* the components added later, in the specifications without them
OthersIdle == LifeIdle /\ StealIdle /\ ConcIdle /\ ManagerIdle /\ SessionIdle

RestIdle == PoolIdle /\ ObjectPoolIdle /\ ResultIdle /\ MemoryPoolIdle /\ OthersIdle

\* the state of the Task variables in the specifications that run no Task
TaskIdle ==
    /\ scn = NoScenario
    /\ frames = <<>>
    /\ stack = <<>>
    /\ mainT = MainIdle
    /\ tasks_ = <<>>
    /\ shutdown_ = FALSE
    /\ worker = WorkerIdle
    /\ future = NoFuture
    /\ now = 0

----------------------------------------------------------------------------
(* Specification Spec: one allocator, callers making any sequence of calls *)

Init ==
    /\ InitAllocator(PoolSize)
    /\ call = NoCall
    /\ live = <<>>
    /\ thr = IdleThreads
    /\ TaskIdle
    /\ LimiterIdle
    /\ RestIdle

\* a caller calls allocate(size, alignment) and keeps the returned pointer
AllocateCall(size, alignment) ==
    /\ allocate(size, alignment)
    /\ live' = IF call'.ret = NULL THEN live
               ELSE BagAdd(live, [ptr |-> call'.ret, size |-> size])
    /\ UNCHANGED thr
    /\ UNCHANGED notAllocator

Allocate ==
    /\ stats_.allocation_count < MaxAllocs
    /\ \E size \in Sizes, alignment \in Alignments : AllocateCall(size, alignment)

\* a caller gives one of its allocations back, once
Deallocate ==
    /\ \E h \in DOMAIN live :
          /\ deallocate(h.ptr, h.size)
          /\ live' = BagRemove(live, h)
    /\ UNCHANGED thr
    /\ UNCHANGED notAllocator

Next == Allocate \/ Deallocate

Spec == Init /\ [][Next]_vars

----------------------------------------------------------------------------
(* Specification StressSpec: SystemStressIntegration, NumThreads threads that *)
(* each repeat Iterations times  p = allocate(1024); deallocate(p, 1024)      *)
(* on one allocator whose arena holds NumThreads blocks                       *)

\* bytes the arena has beyond NumThreads blocks
StressSlack == {0, 4, DefaultAlignment, StressBlock \div 2}

StressInit ==
    /\ \E extra \in StressSlack : InitAllocator(NumThreads * StressBlock + extra)
    /\ call = NoCall
    /\ live = <<>>
    /\ thr = [t \in 1 .. NumThreads |-> [pc |-> "alloc", iter |-> 0, ptr |-> NULL]]
    /\ TaskIdle
    /\ LimiterIdle
    /\ RestIdle

\* void* ptr = allocator.allocate(1024);
StressAllocate(t) ==
    /\ thr[t].pc = "alloc"
    /\ allocate(StressBlock, DefaultAlignment)
    /\ thr' = [thr EXCEPT ![t] = [pc |-> "dealloc", iter |-> @.iter, ptr |-> call'.ret]]
    /\ live' = IF call'.ret = NULL THEN live
               ELSE BagAdd(live, [ptr |-> call'.ret, size |-> StressBlock])
    /\ UNCHANGED notAllocator

\* allocator.deallocate(ptr, 1024); and the loop increment
StressDeallocate(t) ==
    /\ thr[t].pc = "dealloc"
    /\ deallocate(thr[t].ptr, StressBlock)
    /\ thr' = [thr EXCEPT ![t] =
                  [pc |-> IF @.iter + 1 >= Iterations THEN "done" ELSE "alloc",
                   iter |-> @.iter + 1, ptr |-> NULL]]
    /\ live' = IF thr[t].ptr = NULL THEN live
               ELSE BagRemove(live, [ptr |-> thr[t].ptr, size |-> StressBlock])
    /\ UNCHANGED notAllocator

StressNext == \E t \in 1 .. NumThreads : StressAllocate(t) \/ StressDeallocate(t)

StressSpec == StressInit /\ [][StressNext]_vars

----------------------------------------------------------------------------
(* Properties of the allocator *)

RECURSIVE SumSizes(_)
SumSizes(fb) == IF Len(fb) = 0 THEN 0 ELSE fb[1].size + SumSizes(Tail(fb))

RECURSIVE SumMap(_)
SumMap(m) ==
    IF DOMAIN m = {} THEN 0
    ELSE LET k == CHOOSE x \in DOMAIN m : TRUE
         IN  m[k] + SumMap(MapErase(m, k))

\* C1: after every allocate or deallocate the sizes of the free blocks plus the
\* sizes of the allocated blocks add up to the pool size of the constructor.
C1_Tiling == SumSizes(free_blocks_) + SumMap(allocated_blocks_) = pool_size_

Disjoint(a, b) ==
    \/ a.size = 0
    \/ b.size = 0
    \/ a.ptr + a.size <= b.ptr
    \/ b.ptr + b.size <= a.ptr

\* C2: the byte ranges [ptr, ptr + size) of any two allocations that were
\* returned and not yet deallocated are disjoint, for all request sizes
\* including 0. Stated for the requests that fit in the arena, which leaves
\* out the requests whose rounded size wraps around (those are C3's).
C2_NoOverlap ==
    \A a \in DOMAIN live, b \in DOMAIN live :
        (/\ a.size <= pool_size_
         /\ b.size <= pool_size_
         /\ (a # b \/ live[a] > 1))
        => Disjoint(a, b)

\* C3: allocate(size, alignment) with a size of 1 .. 2^w - 1 that is larger than
\* every free block returns nullptr and changes nothing of the allocator.
C3_TooLargeFails ==
    [][\A size \in Sizes \ {0}, alignment \in Alignments :
          (/\ \A i \in 1 .. Len(free_blocks_) : free_blocks_[i].size < size
           /\ AllocateCall(size, alignment))
          => (call'.ret = NULL /\ UNCHANGED allocVars)]_vars

\* C19: every non-null pointer returned by allocate(size, alignment) is a
\* multiple of alignment away from the arena base, whatever alignments the
\* earlier calls used (stated for sizes of 1 .. pool size, which do not wrap).
C19_PointerAligned ==
    [][\A size \in Sizes, alignment \in Alignments :
          (/\ 1 <= size
           /\ size <= pool_size_
           /\ AllocateCall(size, alignment)
           /\ call'.ret # NULL)
          => call'.ret % alignment = 0]_vars

AllDone == \A t \in 1 .. NumThreads : thr[t].pc = "done"

\* C4: in the stress test every allocate returns non-null, and once all
\* threads have finished allocation_count = deallocation_count and
\* current_usage = 0.
C4_StressBalance ==
    /\ \A t \in 1 .. NumThreads : thr[t].pc = "dealloc" => thr[t].ptr # NULL
    /\ AllDone => /\ stats_.allocation_count = stats_.deallocation_count
                  /\ stats_.current_usage = 0

\* all threads finished their iterations, every allocation having succeeded
C4_Witness ==
    /\ AllDone
    /\ stats_.allocation_count = NumThreads * Iterations

----------------------------------------------------------------------------
(* Task<T> coroutines, sleep_for, yield and AsyncScheduler::schedule.        *)
(* A coroutine runs on the thread that calls or resumes it, so the frames    *)
(* the main thread is executing form a stack; a frame that suspends hands    *)
(* control back to the frame (or the main function) below it.                *)

\* the clock is followed for MaxTime milliseconds; later readings change no
\* comparison the program makes
MaxTime == 3
\* durations passed to sleep_for and timeout: 0 .. MaxDur milliseconds
MaxDur == 2

\* the value the closures and coroutine bodies return
ResultValue == 42
\* timeout polls with sleep_for(1ms)
SleepStep == 1
\* schedule_impl polls with future.wait_for(1ms)
WaitStep == 1

NewFrame(kind, body, throws, dur, target) ==
    [kind |-> kind, pc |-> "start", done |-> FALSE,
     result |-> NoResult, exception |-> NoException, continuation |-> 0,
     start |-> 0, body |-> body, throws |-> throws, dur |-> dur,
     target |-> target, child |-> 0]

Top == stack[Len(stack)]
Pop == SubSeq(stack, 1, Len(stack) - 1)
Running(kind, pc) ==
    /\ Len(stack) > 0
    /\ frames[Top].kind = kind
    /\ frames[Top].pc = pc

\* co_await std::suspend_always{}: the frame stops at pc and control returns
\* to the caller or resumer
Suspend(pc) ==
    /\ frames' = [frames EXCEPT ![Top].pc = pc]
    /\ stack' = Pop

\* return_value / unhandled_exception followed by final_suspend, which resumes
\* the continuation when one is registered
Complete(result, exception) ==
    /\ frames' = [frames EXCEPT ![Top].result = result,
                                ![Top].exception = exception,
                                ![Top].done = TRUE,
                                ![Top].pc = "final"]
    /\ stack' = IF frames[Top].continuation # 0
                THEN Append(Pop, frames[Top].continuation)
                ELSE Pop

\* the running frame calls a coroutine function: initial_suspend is
\* suspend_never, so the new frame starts to run at once
CallCoroutine(pc, frame) ==
    /\ frames' = Append([frames EXCEPT ![Top].pc = pc,
                                       ![Top].child = Len(frames) + 1], frame)
    /\ stack' = Append(stack, Len(frames) + 1)

\* Task<void> yield()
CoYield ==
    /\ Running("yield", "start")
    /\ Suspend("after_suspend")
    /\ UNCHANGED <<notTask, scn, mainT, tasks_, shutdown_, worker, future, now>>

\* Task<void> sleep_for(duration): auto start = steady_clock::now();
CoSleepStart ==
    /\ Running("sleep_for", "start")
    /\ frames' = [frames EXCEPT ![Top].start = now, ![Top].pc = "check"]
    /\ UNCHANGED <<notTask, scn, stack, mainT, tasks_, shutdown_, worker, future, now>>

\* while (steady_clock::now() - start < duration) co_await suspend_always{};
CoSleepCheck ==
    /\ Running("sleep_for", "check")
    /\ IF now - frames[Top].start < frames[Top].dur
       THEN Suspend("check")
       ELSE Complete(NoResult, NoException)
    /\ UNCHANGED <<notTask, scn, mainT, tasks_, shutdown_, worker, future, now>>

\* the coroutine lambdas of the tests: co_return 42; throw; co_await yield();
\* co_await sleep_for(d)
CoBody ==
    /\ Running("body", "start")
    /\ CASE frames[Top].body = "ret" -> Complete(Value(ResultValue), NoException)
         [] frames[Top].body = "throw" -> Complete(NoResult, "E")
         [] frames[Top].body = "await_yield" ->
                CallCoroutine("await", NewFrame("yield", "none", FALSE, 0, 0))
         [] frames[Top].body = "await_sleep" ->
                CallCoroutine("await",
                              NewFrame("sleep_for", "none", FALSE, frames[Top].dur, 0))
    /\ UNCHANGED <<notTask, scn, mainT, tasks_, shutdown_, worker, future, now>>

\* co_await task: Task::await_ready, and Task::await_suspend when not ready
CoAwait ==
    /\ Len(stack) > 0
    /\ frames[Top].pc = "await"
    /\ LET c == frames[Top].child
       IN  IF frames[c].done
           THEN /\ frames' = [frames EXCEPT ![Top].pc = "resume"]
                /\ UNCHANGED stack
           ELSE /\ frames' = [frames EXCEPT ![c].continuation = Top,
                                            ![Top].pc = "resume"]
                /\ stack' = Pop
    /\ UNCHANGED <<notTask, scn, mainT, tasks_, shutdown_, worker, future, now>>

\* Task::await_resume in the awaiting coroutine, and the code after the co_await
CoResume ==
    /\ Len(stack) > 0
    /\ frames[Top].pc = "resume"
    /\ LET c == frames[Top].child
       IN  IF frames[c].exception # NoException
           THEN Complete(NoResult, frames[c].exception)
           ELSE CASE frames[Top].kind = "body" ->
                        Complete(Value(ResultValue), NoException)
                  [] frames[Top].kind = "schedule" ->
                        Complete(frames[c].result, NoException)
                  [] frames[Top].kind = "schedule_impl" ->
                        /\ frames' = [frames EXCEPT ![Top].pc = "wait_begin"]
                        /\ UNCHANGED stack
                  [] frames[Top].kind = "timeout" ->
                        /\ frames' = [frames EXCEPT ![Top].pc = "loop"]
                        /\ UNCHANGED stack
    /\ UNCHANGED <<notTask, scn, mainT, tasks_, shutdown_, worker, future, now>>

\* Task::timeout(duration): auto start = steady_clock::now();
CoTimeoutStart ==
    /\ Running("timeout", "start")
    /\ frames' = [frames EXCEPT ![Top].start = now, ![Top].pc = "loop"]
    /\ UNCHANGED <<notTask, scn, stack, mainT, tasks_, shutdown_, worker, future, now>>

\* while (!handle_.done()) { if (now - start > duration) co_return nullopt;
\*                           co_await sleep_for(1ms); }  co_return await_resume();
CoTimeoutLoop ==
    /\ Running("timeout", "loop")
    /\ LET t == frames[Top].target
       IN  IF frames[t].done
           THEN IF frames[t].exception # NoException
                THEN Complete(NoResult, frames[t].exception)
                ELSE Complete(frames[t].result, NoException)
           ELSE IF now - frames[Top].start > frames[Top].dur
                THEN Complete(Nullopt, NoException)
                ELSE CallCoroutine("await",
                                   NewFrame("sleep_for", "none", FALSE, SleepStep, 0))
    /\ UNCHANGED <<notTask, scn, mainT, tasks_, shutdown_, worker, future, now>>

\* AsyncScheduler::schedule(func): co_return co_await schedule_impl(func);
CoSchedule ==
    /\ Running("schedule", "start")
    /\ CallCoroutine("await",
                     NewFrame("schedule_impl", "none", frames[Top].throws, 0, 0))
    /\ UNCHANGED <<notTask, scn, mainT, tasks_, shutdown_, worker, future, now>>

\* schedule_impl: thread_pool_->submit_task(closure), which throws when the
\* pool is shutting down and pushes the closure onto tasks_ otherwise
CoImplSubmit ==
    /\ Running("schedule_impl", "start")
    /\ IF shutdown_
       THEN /\ Complete(NoResult, "runtime_error")
            /\ UNCHANGED tasks_
       ELSE /\ tasks_' = Append(tasks_, [throws |-> frames[Top].throws])
            /\ frames' = [frames EXCEPT ![Top].pc = "wait_begin"]
            /\ UNCHANGED stack
    /\ UNCHANGED <<notTask, scn, mainT, shutdown_, worker, future, now>>

\* schedule_impl: the call future.wait_for(1ms) starts
CoImplWaitBegin ==
    /\ Running("schedule_impl", "wait_begin")
    /\ frames' = [frames EXCEPT ![Top].start = now, ![Top].pc = "wait"]
    /\ UNCHANGED <<notTask, scn, stack, mainT, tasks_, shutdown_, worker, future, now>>

\* schedule_impl: future.wait_for(1ms) returns ready, or returns timeout and
\* the loop body runs co_await yield()
CoImplWait ==
    /\ Running("schedule_impl", "wait")
    /\ \/ /\ future.ready
          /\ frames' = [frames EXCEPT ![Top].pc = "get"]
          /\ UNCHANGED stack
       \/ /\ ~future.ready
          /\ now - frames[Top].start >= WaitStep
          /\ CallCoroutine("await", NewFrame("yield", "none", FALSE, 0, 0))
    /\ UNCHANGED <<notTask, scn, mainT, tasks_, shutdown_, worker, future, now>>

\* schedule_impl: co_return future.get();
CoImplGet ==
    /\ Running("schedule_impl", "get")
    /\ IF future.exception # NoException
       THEN Complete(NoResult, future.exception)
       ELSE Complete(future.value, NoException)
    /\ UNCHANGED <<notTask, scn, mainT, tasks_, shutdown_, worker, future, now>>

\* the main thread creates the Task of the scenario
MainCreate ==
    /\ mainT.pc = "create"
    /\ stack = <<>>
    /\ frames' = Append(frames,
                   IF scn.inner = "schedule"
                   THEN NewFrame("schedule", "none", scn.throws, 0, 0)
                   ELSE NewFrame("body", scn.body, FALSE, scn.dur, 0))
    /\ stack' = <<Len(frames) + 1>>
    /\ mainT' = [mainT EXCEPT !.task = Len(frames) + 1,
                              !.pc = IF scn.kind = "timeout"
                                     THEN "call_timeout" ELSE "get"]
    /\ UNCHANGED <<notTask, scn, tasks_, shutdown_, worker, future, now>>

\* auto timeout_result = task.timeout(d);
MainTimeout ==
    /\ mainT.pc = "call_timeout"
    /\ stack = <<>>
    /\ frames' = Append(frames, NewFrame("timeout", "none", FALSE, scn.d, mainT.task))
    /\ stack' = <<Len(frames) + 1>>
    /\ mainT' = [mainT EXCEPT !.task = Len(frames) + 1, !.pc = "get"]
    /\ UNCHANGED <<notTask, scn, tasks_, shutdown_, worker, future, now>>

\* Task::get(): the polling loop ends once handle_.done(); await_resume then
\* rethrows the stored exception or returns the stored result
MainGet ==
    /\ mainT.pc = "get"
    /\ stack = <<>>
    /\ frames[mainT.task].done
    /\ mainT' = IF frames[mainT.task].exception # NoException
                THEN [mainT EXCEPT !.pc = "done",
                                   !.raised = frames[mainT.task].exception]
                ELSE [mainT EXCEPT !.pc = "done",
                                   !.got = frames[mainT.task].result]
    /\ UNCHANGED <<notTask, scn, frames, stack, tasks_, shutdown_, worker, future, now>>

\* the worker thread takes the next closure from tasks_
WorkerPop ==
    /\ worker.pc = "idle"
    /\ tasks_ # <<>>
    /\ worker' = [pc |-> "running", throws |-> Head(tasks_).throws]
    /\ tasks_' = Tail(tasks_)
    /\ UNCHANGED <<notTask, scn, frames, stack, mainT, shutdown_, future, now>>

\* the closure submitted by schedule_impl:
\* try { promise.set_value(func()); } catch (...) { promise.set_exception(...); }
ClosureOutcome(throws) ==
    IF throws
    THEN [ready |-> TRUE, value |-> NoResult, exception |-> "E"]
    ELSE [ready |-> TRUE, value |-> Value(ResultValue), exception |-> NoException]

WorkerRun ==
    /\ worker.pc = "running"
    /\ future' = ClosureOutcome(worker.throws)
    /\ worker' = WorkerIdle
    /\ UNCHANGED <<notTask, scn, frames, stack, mainT, tasks_, shutdown_, now>>

\* one millisecond passes
Tick ==
    /\ now < MaxTime
    /\ now' = now + 1
    /\ UNCHANGED <<notTask, scn, frames, stack, mainT, tasks_, shutdown_, worker, future>>

\* the programs of the main thread: a Task made by schedule(f) or by a
\* coroutine lambda, then get() on it or on task.timeout(d)
Scenarios ==
    {[kind |-> k, inner |-> "schedule", throws |-> th, body |-> "none",
      dur |-> 0, d |-> d] :
        k \in {"get"}, th \in BOOLEAN, d \in {0}}
    \cup {[kind |-> k, inner |-> "schedule", throws |-> th, body |-> "none",
           dur |-> 0, d |-> d] :
        k \in {"timeout"}, th \in BOOLEAN, d \in 0 .. MaxDur}
    \cup {[kind |-> k, inner |-> "body", throws |-> FALSE, body |-> b,
           dur |-> 0, d |-> d] :
        k \in {"get"}, b \in {"ret", "throw", "await_yield"}, d \in {0}}
    \cup {[kind |-> k, inner |-> "body", throws |-> FALSE, body |-> b,
           dur |-> 0, d |-> d] :
        k \in {"timeout"}, b \in {"ret", "throw", "await_yield"}, d \in 0 .. MaxDur}
    \cup {[kind |-> k, inner |-> "body", throws |-> FALSE, body |-> "await_sleep",
           dur |-> dur, d |-> d] :
        k \in {"get"}, dur \in 0 .. MaxDur, d \in {0}}
    \cup {[kind |-> k, inner |-> "body", throws |-> FALSE, body |-> "await_sleep",
           dur |-> dur, d |-> d] :
        k \in {"timeout"}, dur \in 0 .. MaxDur, d \in 0 .. MaxDur}

TaskInit ==
    /\ AllocatorIdle
    /\ LimiterIdle
    /\ RestIdle
    /\ scn \in Scenarios
    /\ frames = <<>>
    /\ stack = <<>>
    /\ mainT = [MainIdle EXCEPT !.pc = "create"]
    /\ tasks_ = <<>>
    /\ shutdown_ = FALSE
    /\ worker = WorkerIdle
    /\ future = NoFuture
    /\ now = 0

MainStep ==
    \/ MainCreate \/ MainTimeout \/ MainGet
    \/ CoYield \/ CoSleepStart \/ CoSleepCheck \/ CoBody \/ CoAwait \/ CoResume
    \/ CoTimeoutStart \/ CoTimeoutLoop
    \/ CoSchedule \/ CoImplSubmit \/ CoImplWaitBegin \/ CoImplWait \/ CoImplGet

WorkerStep == WorkerPop \/ WorkerRun

TaskNext == MainStep \/ WorkerStep \/ Tick

TaskSpec == TaskInit /\ [][TaskNext]_vars

\* the threads and the clock all keep running
TaskFairSpec ==
    /\ TaskSpec
    /\ WF_vars(MainStep)
    /\ WF_vars(WorkerStep)
    /\ WF_vars(Tick)

GetReturned(r) == mainT.pc = "done" /\ mainT.got = r /\ mainT.raised = NoException
GetRaised(e) == mainT.pc = "done" /\ mainT.raised = e /\ mainT.got = NoResult

\* C5: for a closure f that returns v, get() on the Task of schedule(f)
\* eventually returns v and is_ready() is true afterwards.
C5_ScheduleDelivers ==
    (scn.kind = "get" /\ scn.inner = "schedule" /\ ~scn.throws)
    => <>(GetReturned(Value(ResultValue)) /\ frames[mainT.task].done)

\* C6: for a closure f or a coroutine body that throws E, creating the Task
\* raises nothing and get() on it raises E and never returns a value.
C6_ExceptionRaised ==
    (/\ scn.kind = "get"
     /\ \/ scn.inner = "schedule" /\ scn.throws
        \/ scn.inner = "body" /\ scn.body = "throw")
    => <>GetRaised("E")

\* C7: get() on task.timeout(d) eventually returns: an empty optional when the
\* task has not completed by the deadline, the task's value otherwise.
C7_TimeoutReturns ==
    (/\ scn.kind = "timeout"
     /\ \/ scn.inner = "schedule" /\ ~scn.throws
        \/ scn.inner = "body" /\ scn.body # "throw")
    => <>(GetReturned(Nullopt) \/ GetReturned(Value(ResultValue)))

\* C8: a coroutine that awaits yield() or sleep_for(d) eventually runs the code
\* after the await and completes, so that get() on it terminates.
C8_AwaitCompletes ==
    (/\ scn.kind = "get"
     /\ scn.inner = "body"
     /\ scn.body \in {"await_yield", "await_sleep"})
    => <>(frames # <<>> /\ frames[1].done /\ GetReturned(Value(ResultValue)))

----------------------------------------------------------------------------
(* ConcurrencyLimiter. Only its declaration is part of the sources           *)
(* (async_scheduler.hpp, nex/core/scheduler.hpp); the operations follow the  *)
(* component design: a counting semaphore whose release returns a permit and *)
(* wakes one waiter, with callers that pair every acquire with a release.    *)

HasCapacity == current_permits_ < max_permits_

\* a thread calls try_acquire, acquire, acquire_for or acquire_permit
LimCall(t, mode) ==
    /\ lim[t].pc = "idle"
    /\ lim[t].guard = "none"
    /\ lim[t].held < max_permits_
    /\ lim' = [lim EXCEPT ![t] = [@ EXCEPT !.pc = "enter", !.mode = mode,
                                           !.ret = "none", !.exit = "none"]]
    /\ UNCHANGED <<max_permits_, current_permits_, waiting_queue_>>
    /\ UNCHANGED notLimiter

\* a variant of try_acquire that takes a permit without looking at the limit
TryAcquireUnchecked(t) ==
    /\ lim[t].pc = "enter"
    /\ lim[t].mode = "try_acquire"
    /\ current_permits_' = current_permits_ + 1
    /\ lim' = [lim EXCEPT ![t] = [@ EXCEPT !.pc = "idle", !.held = @ + 1,
                                           !.ret = "true"]]
    /\ UNCHANGED <<max_permits_, waiting_queue_>>
    /\ UNCHANGED notLimiter

\* try_acquire(): non-blocking, false at once when at capacity
TryAcquire(t) ==
    /\ lim[t].pc = "enter"
    /\ lim[t].mode = "try_acquire"
    /\ IF HasCapacity
       THEN /\ current_permits_' = current_permits_ + 1
            /\ lim' = [lim EXCEPT ![t] = [@ EXCEPT !.pc = "idle", !.held = @ + 1,
                                                   !.ret = "true"]]
       ELSE /\ lim' = [lim EXCEPT ![t] = [@ EXCEPT !.pc = "idle", !.ret = "false"]]
            /\ UNCHANGED current_permits_
    /\ UNCHANGED <<max_permits_, waiting_queue_>>
    /\ UNCHANGED notLimiter

\* acquire(), acquire_for(timeout), acquire_permit(): take a permit when one is
\* available, join the waiting queue otherwise
AcquireEnter(t) ==
    /\ lim[t].pc = "enter"
    /\ lim[t].mode \in {"acquire", "acquire_for", "acquire_permit"}
    /\ IF HasCapacity
       THEN /\ current_permits_' = current_permits_ + 1
            /\ lim' = [lim EXCEPT ![t] = [@ EXCEPT !.pc = "idle", !.held = @ + 1,
                                                   !.ret = "true"]]
            /\ UNCHANGED waiting_queue_
       ELSE /\ lim' = [lim EXCEPT ![t] = [@ EXCEPT !.pc = "waiting"]]
            /\ waiting_queue_' = Append(waiting_queue_, t)
            /\ UNCHANGED current_permits_
    /\ UNCHANGED max_permits_
    /\ UNCHANGED notLimiter

\* release() / release_permit() by a holder: the permit goes back to the pool
\* and the oldest waiter, if any, is woken
Release(t) ==
    /\ lim[t].pc = "idle"
    /\ lim[t].guard = "none"
    /\ lim[t].held > 0
    /\ current_permits_' = current_permits_ - 1
    /\ IF waiting_queue_ # <<>>
       THEN /\ lim' = [lim EXCEPT ![t] = [@ EXCEPT !.held = @ - 1],
                                  ![Head(waiting_queue_)] = [@ EXCEPT !.pc = "woken"]]
            /\ waiting_queue_' = Tail(waiting_queue_)
       ELSE /\ lim' = [lim EXCEPT ![t] = [@ EXCEPT !.held = @ - 1]]
            /\ UNCHANGED waiting_queue_
    /\ UNCHANGED max_permits_
    /\ UNCHANGED notLimiter

\* a woken waiter takes the permit, or waits again when another thread took it
WakeUp(t) ==
    /\ lim[t].pc = "woken"
    /\ IF HasCapacity
       THEN /\ current_permits_' = current_permits_ + 1
            /\ lim' = [lim EXCEPT ![t] = [@ EXCEPT !.pc = "idle", !.held = @ + 1,
                                                   !.ret = "true"]]
            /\ UNCHANGED waiting_queue_
       ELSE /\ lim' = [lim EXCEPT ![t] = [@ EXCEPT !.pc = "waiting"]]
            /\ waiting_queue_' = Append(waiting_queue_, t)
            /\ UNCHANGED current_permits_
    /\ UNCHANGED max_permits_
    /\ UNCHANGED notLimiter

Without(q, t) == SelectSeq(q, LAMBDA x : x # t)

\* a variant of the expiry that keeps the permit a racing release has freed
ExpireLeaks(t) ==
    /\ lim[t].pc \in {"waiting", "woken"}
    /\ lim[t].mode = "acquire_for"
    /\ lim' = [lim EXCEPT ![t] = [@ EXCEPT !.pc = "idle", !.ret = "false"]]
    /\ waiting_queue_' = Without(waiting_queue_, t)
    /\ current_permits_' = IF lim[t].pc = "woken" /\ HasCapacity
                           THEN current_permits_ + 1 ELSE current_permits_
    /\ UNCHANGED max_permits_
    /\ UNCHANGED notLimiter

\* acquire_for(timeout): the timeout expires while the thread waits, also when
\* a release has just woken it; the call returns false
Expire(t) ==
    /\ lim[t].pc \in {"waiting", "woken"}
    /\ lim[t].mode = "acquire_for"
    /\ lim' = [lim EXCEPT ![t] = [@ EXCEPT !.pc = "idle", !.ret = "false"]]
    /\ waiting_queue_' = Without(waiting_queue_, t)
    /\ UNCHANGED <<max_permits_, current_permits_>>
    /\ UNCHANGED notLimiter

LimModes == {"try_acquire", "acquire", "acquire_for", "acquire_permit"}

LimInit ==
    /\ AllocatorIdle
    /\ TaskIdle
    /\ RestIdle
    /\ max_permits_ \in 1 .. MaxPermits
    /\ current_permits_ = 0
    /\ waiting_queue_ = <<>>
    /\ lim = [t \in 1 .. LimThreads |-> LimThreadIdle]

LimNext ==
    \E t \in 1 .. LimThreads :
        \/ \E mode \in LimModes : LimCall(t, mode)
        \/ TryAcquire(t)
        \/ AcquireEnter(t)
        \/ Release(t)
        \/ WakeUp(t)
        \/ Expire(t)

LimSpec == LimInit /\ [][LimNext]_vars

\* C9: for every interleaving of try_acquire, acquire, acquire_for,
\* acquire_permit and release calls, 0 <= current_permits <= max_permits.
C9_LimiterBound ==
    /\ 0 <= current_permits_
    /\ current_permits_ <= max_permits_

\* the limit is reached while another thread waits for a permit
C9_Witness ==
    /\ current_permits_ = max_permits_
    /\ \E t \in 1 .. LimThreads : lim[t].pc = "waiting"

\* C10: an acquire_for call that expires returns false and leaves
\* current_permits as it was, also when a release races with the expiry;
\* a call that returns true has taken exactly one permit.
C10_AcquireForFrame ==
    [][\A t \in 1 .. LimThreads :
          (/\ lim[t].mode = "acquire_for"
           /\ lim[t].pc # "idle"
           /\ lim'[t].pc = "idle")
          => IF lim'[t].ret = "false"
             THEN /\ current_permits_' = current_permits_
                  /\ lim'[t].held = lim[t].held
             ELSE /\ lim'[t].ret = "true"
                  /\ current_permits_' = current_permits_ + 1
                  /\ lim'[t].held = lim[t].held + 1]_vars

\* an acquire_for call has returned false while a permit is free
C10_Witness ==
    \E t \in 1 .. LimThreads :
        /\ lim[t].mode = "acquire_for"
        /\ lim[t].pc = "idle"
        /\ lim[t].ret = "false"
        /\ current_permits_ < max_permits_

----------------------------------------------------------------------------
(* ConcurrencyLimiter::ScopedPermit, declared in async_scheduler.hpp: the    *)
(* constructor acquires from the limiter and remembers in acquired_ whether  *)
(* it got a permit, the destructor gives the permit back when acquired_.     *)
(* The guard's scope is left by a return, an early return or an exception;   *)
(* the destructor runs in all three.                                         *)

\* threads that use the limiter in the specification of the guard
GuardThreads == 2

\* the acquisitions a guard's constructor may be built on
GuardModes == {"try_acquire", "acquire", "acquire_for"}

\* the ways control leaves the scope of a guard
ExitPaths == {"return", "early_return", "exception"}

\* ScopedPermit::ScopedPermit(limiter): starts the acquisition
GuardConstruct(t, mode) ==
    /\ lim[t].pc = "idle"
    /\ lim[t].guard = "none"
    /\ lim[t].held < max_permits_
    /\ lim' = [lim EXCEPT ![t] = [@ EXCEPT !.pc = "enter", !.mode = mode,
                                           !.ret = "none", !.exit = "none",
                                           !.guard = "scoped",
                                           !.before = lim[t].held]]
    /\ UNCHANGED <<max_permits_, current_permits_, waiting_queue_>>
    /\ UNCHANGED notLimiter

\* ScopedPermit::is_acquired() of the guard of thread t
is_acquired(t) == lim[t].ret = "true"

\* a variant of the destructor that releases whether or not acquired_ is set
ScopeExitAlwaysReleases(t, path) ==
    /\ lim[t].pc = "idle"
    /\ lim[t].guard = "scoped"
    /\ current_permits_ > 0
    /\ current_permits_' = current_permits_ - 1
    /\ lim' = [lim EXCEPT ![t] = [@ EXCEPT !.held = IF @ > 0 THEN @ - 1 ELSE 0,
                                           !.guard = "none", !.mode = "none",
                                           !.before = 0, !.exit = path]]
    /\ UNCHANGED <<max_permits_, waiting_queue_>>
    /\ UNCHANGED notLimiter

\* ScopedPermit::~ScopedPermit(), run when control leaves the scope on path:
\* release() when acquired_, nothing otherwise
ScopeExit(t, path) ==
    /\ lim[t].pc = "idle"
    /\ lim[t].guard = "scoped"
    /\ IF is_acquired(t)
       THEN /\ current_permits_' = current_permits_ - 1
            /\ IF waiting_queue_ # <<>>
               THEN /\ lim' = [lim EXCEPT
                                 ![t] = [@ EXCEPT !.held = @ - 1,
                                                  !.guard = "none",
                                                  !.mode = "none",
                                                  !.before = 0,
                                                  !.exit = path],
                                 ![Head(waiting_queue_)] =
                                        [@ EXCEPT !.pc = "woken"]]
                    /\ waiting_queue_' = Tail(waiting_queue_)
               ELSE /\ lim' = [lim EXCEPT
                                 ![t] = [@ EXCEPT !.held = @ - 1,
                                                  !.guard = "none",
                                                  !.mode = "none",
                                                  !.before = 0,
                                                  !.exit = path]]
                    /\ UNCHANGED waiting_queue_
       ELSE /\ lim' = [lim EXCEPT ![t] = [@ EXCEPT !.guard = "none",
                                                   !.mode = "none",
                                                   !.before = 0,
                                                   !.exit = path]]
            /\ UNCHANGED <<current_permits_, waiting_queue_>>
    /\ UNCHANGED max_permits_
    /\ UNCHANGED notLimiter

\* threads that take permits through guards, next to threads that call
\* acquire and release themselves
GuardNext ==
    \E t \in 1 .. GuardThreads :
        \/ \E mode \in GuardModes : GuardConstruct(t, mode)
        \/ \E path \in ExitPaths : ScopeExit(t, path)
        \/ LimCall(t, "acquire")
        \/ TryAcquire(t)
        \/ AcquireEnter(t)
        \/ Release(t)
        \/ WakeUp(t)
        \/ Expire(t)

GuardSpec == LimInit /\ [][GuardNext]_vars

RECURSIVE SumHeld(_)
SumHeld(n) == IF n = 0 THEN 0 ELSE lim[n].held + SumHeld(n - 1)

\* C11: when a ScopedPermit goes out of scope on any path, a guard that
\* acquired a permit releases exactly one and a guard whose is_acquired() is
\* false releases none, so the thread holds what it held just before the
\* guard was constructed and the limiter's concurrency is again the number of
\* permits held outside the guard.
C11_ScopedPermitPairs ==
    [][\A t \in 1 .. GuardThreads :
          (lim[t].guard = "scoped" /\ lim'[t].guard = "none")
          => /\ current_permits_' =
                  current_permits_ - (IF is_acquired(t) THEN 1 ELSE 0)
             /\ lim'[t].held = lim[t].before
             /\ current_permits_' = SumHeld(LimThreads)']_vars

\* one guard that held a permit has been left by an exception and another
\* guard that got no permit has been left by an early return
C11_Witness ==
    \E t, u \in 1 .. GuardThreads :
        /\ lim[t].guard = "none" /\ lim[t].exit = "exception"
        /\ lim[t].ret = "true"
        /\ lim[u].guard = "none" /\ lim[u].exit = "early_return"
        /\ lim[u].ret = "false"

----------------------------------------------------------------------------
(* WorkStealingPool: submit_task and submit_priority_task (scheduler.hpp),   *)
(* called by one thread that makes ProgLen submissions, while the owner of   *)
(* the pool may call shutdown() at any time. worker_thread and shutdown are  *)
(* not part of the sources; they follow the component design: shutdown sets  *)
(* the flag, a single worker takes the top of the priority queue or the head *)
(* of the FIFO queue whenever it is idle, and stops after shutdown.          *)

\* submissions per run
ProgLen == 3

\* enum class TaskPriority
LOW == 0
NORMAL == 1
HIGH == 2
CRITICAL == 3
TaskPriority == {LOW, NORMAL, HIGH, CRITICAL}

SubmitTask == [kind |-> "submit_task", priority |-> NORMAL]
SubmitPriorityTask(p) == [kind |-> "submit_priority_task", priority |-> p]
SubmitOps == {SubmitTask} \cup {SubmitPriorityTask(p) : p \in TaskPriority}

RECURSIVE Programs(_)
Programs(n) ==
    IF n = 0 THEN {<<>>}
    ELSE {Append(q, op) : q \in Programs(n - 1), op \in SubmitOps}

\* a variant of the comparison that orders the heap by lowest priority
PriorityLessReversed(a, b) == a.priority > b.priority

\* PriorityTask::operator<
PriorityLess(a, b) == a.priority < b.priority

\* the positions std::priority_queue::top may be at: an element that is not
\* less than any other (which one among equals is up to the heap)
TopPositions(q) ==
    {i \in DOMAIN q : \A j \in DOMAIN q : ~PriorityLess(q[i], q[j])}

\* the packaged task of the submission the caller is making
CurrentTask ==
    [id |-> sub.at, kind |-> prog[sub.at].kind,
     priority |-> prog[sub.at].priority, created_at |-> Len(started)]

\* the call starts: packaged_task and get_future
SubmitEnter ==
    /\ sub.pc = "call"
    /\ sub.at <= Len(prog)
    /\ sub' = [sub EXCEPT !.pc = "packaged", !.late = shutdown_]
    /\ UNCHANGED <<tasks_, shutdown_, worker, priority_tasks_, prog, started>>
    /\ UNCHANGED notPool

\* a variant of the check that never looks at the flag
SubmitCheckIgnoresShutdown ==
    /\ sub.pc = "packaged"
    /\ sub' = [sub EXCEPT !.pc = "checked"]
    /\ UNCHANGED <<tasks_, shutdown_, worker, priority_tasks_, prog, started>>
    /\ UNCHANGED notPool

\* under queue_mutex_: if (shutdown_) throw std::runtime_error(...)
SubmitCheck ==
    /\ sub.pc = "packaged"
    /\ IF shutdown_
       THEN sub' = [sub EXCEPT !.pc = "call", !.at = @ + 1,
                               !.outcome = Append(@, "thrown")]
       ELSE sub' = [sub EXCEPT !.pc = "checked"]
    /\ UNCHANGED <<tasks_, shutdown_, worker, priority_tasks_, prog, started>>
    /\ UNCHANGED notPool

\* still under queue_mutex_: tasks_.emplace(...) or priority_tasks_.emplace(...)
SubmitEmplace ==
    /\ sub.pc = "checked"
    /\ IF prog[sub.at].kind = "submit_task"
       THEN /\ tasks_' = Append(tasks_, CurrentTask)
            /\ UNCHANGED priority_tasks_
       ELSE /\ priority_tasks_' = Append(priority_tasks_, CurrentTask)
            /\ UNCHANGED tasks_
    /\ sub' = [sub EXCEPT !.pc = "queued"]
    /\ UNCHANGED <<shutdown_, worker, prog, started>>
    /\ UNCHANGED notPool

\* condition_.notify_one(); return future;
SubmitReturn ==
    /\ sub.pc = "queued"
    /\ sub' = [sub EXCEPT !.pc = "call", !.at = @ + 1,
                          !.outcome = Append(@, "future")]
    /\ UNCHANGED <<tasks_, shutdown_, worker, priority_tasks_, prog, started>>
    /\ UNCHANGED notPool

\* shutdown(): the flag is set
Shutdown ==
    /\ ~shutdown_
    /\ shutdown_' = TRUE
    /\ UNCHANGED <<tasks_, worker, priority_tasks_, prog, sub, started>>
    /\ UNCHANGED notPool

\* the idle worker takes the top of the priority queue and starts it
TakePriority ==
    /\ worker.pc = "idle"
    /\ \E i \in TopPositions(priority_tasks_) :
          /\ started' = Append(started, priority_tasks_[i])
          /\ priority_tasks_' = RemoveAt(priority_tasks_, i)
    /\ worker' = [pc |-> "running", throws |-> FALSE]
    /\ UNCHANGED <<tasks_, shutdown_, prog, sub>>
    /\ UNCHANGED notPool

\* the idle worker takes the head of the FIFO queue and starts it
TakeFifo ==
    /\ worker.pc = "idle"
    /\ tasks_ # <<>>
    /\ started' = Append(started, Head(tasks_))
    /\ tasks_' = Tail(tasks_)
    /\ worker' = [pc |-> "running", throws |-> FALSE]
    /\ UNCHANGED <<shutdown_, priority_tasks_, prog, sub>>
    /\ UNCHANGED notPool

\* the task returns and the worker is idle again
Finish ==
    /\ worker.pc = "running"
    /\ worker' = WorkerIdle
    /\ UNCHANGED <<tasks_, shutdown_, priority_tasks_, prog, sub, started>>
    /\ UNCHANGED notPool

\* the idle worker sees the flag and leaves its loop
WorkerExit ==
    /\ worker.pc = "idle"
    /\ shutdown_
    /\ worker' = [pc |-> "shutdown", throws |-> FALSE]
    /\ UNCHANGED <<tasks_, shutdown_, priority_tasks_, prog, sub, started>>
    /\ UNCHANGED notPool

PoolInit ==
    /\ AllocatorIdle
    /\ OthersIdle
    /\ MemoryPoolIdle
    /\ TaskIdle
    /\ LimiterIdle
    /\ ObjectPoolIdle
    /\ ResultIdle
    /\ priority_tasks_ = <<>>
    /\ prog \in Programs(ProgLen)
    /\ sub = SubIdle
    /\ started = <<>>

PoolNext ==
    \/ SubmitEnter
    \/ SubmitCheck
    \/ SubmitEmplace
    \/ SubmitReturn
    \/ Shutdown
    \/ TakePriority
    \/ TakeFifo
    \/ Finish
    \/ WorkerExit

PoolSpec == PoolInit /\ [][PoolNext]_vars

\* C12: once the shutdown flag is set, every submit_task and
\* submit_priority_task call throws, returns no future, and leaves the FIFO
\* queue and the priority queue as they were: a call that finds the flag set
\* ends with the exception in the same step, and a call made after the flag
\* was set never gets past the check.
C12_SubmitAfterShutdownThrows ==
    [][/\ (sub.pc = "packaged" /\ shutdown_ /\ sub' # sub)
          => /\ sub'.pc = "call"
             /\ sub'.outcome = Append(sub.outcome, "thrown")
             /\ tasks_' = tasks_
             /\ priority_tasks_' = priority_tasks_
       /\ sub'.late => sub'.pc \in {"packaged", "call"}]_vars

\* a call made after shutdown has thrown and both queues are empty
C12_Witness ==
    /\ shutdown_
    /\ sub.late
    /\ sub.pc = "call"
    /\ sub.outcome # <<>>
    /\ sub.outcome[Len(sub.outcome)] = "thrown"
    /\ \E i \in DOMAIN sub.outcome : sub.outcome[i] = "future"

\* the run of the priority test: LOW, NORMAL and CRITICAL submitted in that
\* order with submit_priority_task
LowNormalCritical ==
    prog = <<SubmitPriorityTask(LOW), SubmitPriorityTask(NORMAL),
             SubmitPriorityTask(CRITICAL)>>

----------------------------------------------------------------------------
(* ObjectPool<T> (memory_manager.hpp): acquire and release under the pool's  *)
(* mutex, called any number of times in any order; release is also called    *)
(* with objects that did not come from the pool and with a null pointer.     *)

\* largest initial_size and max_size a pool is constructed with
MaxInitial == 3
MaxCapacity == 3
\* acquire and release calls per run
MaxPoolCalls == 5

available == Len(pool_)
capacity == max_size_

\* acquire(): the last pooled object, or a new one when the pool is empty
acquire ==
    /\ hist.calls < MaxPoolCalls
    /\ IF pool_ # <<>>
       THEN /\ pool_' = SubSeq(pool_, 1, Len(pool_) - 1)
            /\ acquired_count_' = acquired_count_ + 1
            /\ UNCHANGED allocated_count_
            /\ hist' = [hist EXCEPT !.calls = @ + 1, !.checkouts = @ + 1]
       ELSE /\ allocated_count_' = allocated_count_ + 1
            /\ UNCHANGED <<pool_, acquired_count_>>
            /\ hist' = [hist EXCEPT !.calls = @ + 1, !.checkouts = @ + 1,
                                    !.constructed = @ + 1]
    /\ out' = out + 1
    /\ UNCHANGED <<max_size_, released_count_>>
    /\ UNCHANGED notObjectPool

\* release(obj) with an object: kept when the pool has room, destroyed otherwise
release(origin) ==
    /\ hist.calls < MaxPoolCalls
    /\ IF Len(pool_) < max_size_
       THEN /\ pool_' = Append(pool_, origin)
            /\ released_count_' = released_count_ + 1
            /\ hist' = [hist EXCEPT !.calls = @ + 1, !.releases = @ + 1]
       ELSE /\ UNCHANGED <<pool_, released_count_>>
            /\ hist' = [hist EXCEPT !.calls = @ + 1, !.releases = @ + 1,
                                    !.destroyed = @ + 1]
    /\ UNCHANGED <<max_size_, allocated_count_, acquired_count_>>
    /\ UNCHANGED notObjectPool

\* a caller gives back an object it got from acquire()
ReleaseAcquired ==
    /\ out > 0
    /\ out' = out - 1
    /\ release("acquire")

\* a caller hands in an object that never came from this pool
ReleaseForeign ==
    /\ UNCHANGED out
    /\ release("foreign")

\* release(nullptr): returns at once
ReleaseNull ==
    /\ hist.calls < MaxPoolCalls
    /\ hist' = [hist EXCEPT !.calls = @ + 1]
    /\ UNCHANGED <<pool_, max_size_, allocated_count_, acquired_count_,
                   released_count_, out>>
    /\ UNCHANGED notObjectPool

ObjectPoolInit ==
    /\ AllocatorIdle
    /\ OthersIdle
    /\ MemoryPoolIdle
    /\ TaskIdle
    /\ LimiterIdle
    /\ PoolIdle
    /\ ResultIdle
    /\ \E initial_size \in 0 .. MaxInitial, max_size \in 0 .. MaxCapacity :
          ObjectPool(initial_size, max_size)

ObjectPoolNext ==
    \/ acquire
    \/ ReleaseAcquired
    \/ ReleaseForeign
    \/ ReleaseNull

ObjectPoolSpec == ObjectPoolInit /\ [][ObjectPoolNext]_vars

\* C14: for every (initial_size, max_size) and every sequence of acquire and
\* release calls, also releases of objects that never came from the pool,
\* available() <= capacity(); a release made while the pool holds max_size
\* objects destroys the object and keeps the pool as it is.
C14_ResidentBound ==
    [][/\ available <= capacity
       /\ available' <= capacity'
       /\ (hist'.releases # hist.releases /\ available >= capacity)
          => /\ pool_' = pool_
             /\ hist'.destroyed = hist.destroyed + 1]_vars

\* C15: get_stats().allocated_count is the number of objects the pool has
\* ever constructed, the initial_size objects of the constructor included.
C15_AllocatedCountsConstructed == allocated_count_ = hist.constructed

\* C16: get_stats().acquired_count is the number of acquire() calls that have
\* returned an object, reused or newly constructed.
C16_AcquiredCountsCheckouts == acquired_count_ = hist.checkouts

----------------------------------------------------------------------------
(* Result<T> (async_types.hpp): success, error, map and and_then, applied    *)
(* in chains to a first Result made from bounded inputs. A type is written   *)
(* as the sequence of its template nesting: <<"int">> is int,                *)
(* <<"Result", "int">> is Result<int>.                                       *)

\* the values a first Result holds: 0 .. MaxValue
MaxValue == 2
\* calls per chain
MaxChain == 3

\* enum class ErrorCode
ErrorCode ==
    {"SUCCESS", "INVALID_ARGUMENT", "RESOURCE_EXHAUSTED", "INTERNAL_ERROR",
     "PLATFORM_ERROR", "NETWORK_ERROR", "TIMEOUT_ERROR", "MODEL_NOT_FOUND",
     "INFERENCE_FAILED", "GPU_ERROR", "MEMORY_ERROR"}

\* the messages errors are made with; "" is the default argument
Messages == {"", "Test error", "Original error"}

error_code_to_string(code) ==
    CASE code = "SUCCESS" -> "Success"
      [] code = "INVALID_ARGUMENT" -> "Invalid argument"
      [] code = "RESOURCE_EXHAUSTED" -> "Resource exhausted"
      [] code = "INTERNAL_ERROR" -> "Internal error"
      [] code = "PLATFORM_ERROR" -> "Platform error"
      [] code = "NETWORK_ERROR" -> "Network error"
      [] code = "TIMEOUT_ERROR" -> "Timeout error"
      [] code = "MODEL_NOT_FOUND" -> "Model not found"
      [] code = "INFERENCE_FAILED" -> "Inference failed"
      [] code = "GPU_ERROR" -> "GPU error"
      [] code = "MEMORY_ERROR" -> "Memory error"
      [] OTHER -> "Unknown error"

IntType == <<"int">>
StringType == <<"std::string">>
VoidType == <<"void">>
ResultOf(type) == <<"Result">> \o type

\* Result<T>::success(value)
success(type, value) ==
    [type |-> type, has_value |-> TRUE, value |-> value,
     error_code |-> "SUCCESS", error_message |-> ""]

\* Result<T>::error(code, message): an empty message becomes the code's text
error(type, code, message) ==
    [type |-> type, has_value |-> FALSE, value |-> NoValue,
     error_code |-> code,
     error_message |-> IF message = "" THEN error_code_to_string(code)
                       ELSE message]

is_success(r) == r.has_value
is_error(r) == ~r.has_value

\* a call that the compiler rejects: there is no program
IllFormed ==
    [type |-> <<"ill-formed">>, has_value |-> FALSE, value |-> NoValue,
     error_code |-> "SUCCESS", error_message |-> ""]

\* std::to_string of a non-negative int, as its decimal digits
RECURSIVE to_string(_)
to_string(n) ==
    IF n < 10 THEN <<n>> ELSE Append(to_string(n \div 10), n % 10)

\* the pure functions given to map, int -> int
MapFunctions == {"times2", "plus1", "square"}

Apply(f, x) ==
    CASE f = "times2" -> x * 2
      [] f = "plus1" -> x + 1
      [] f = "square" -> x * x

\* the functions given to and_then: each takes an int; ret is its return type
Continuations ==
    {[name |-> "to_string_times2", ret |-> ResultOf(StringType)],
     [name |-> "reject", ret |-> ResultOf(IntType)],
     [name |-> "log", ret |-> VoidType]}

\* what a function given to and_then returns for v
Call(k, v) ==
    CASE k.name = "to_string_times2" -> success(StringType, to_string(v * 2))
      [] k.name = "reject" -> error(IntType, "INVALID_ARGUMENT", "Test error")
      [] k.name = "log" -> success(VoidType, NoValue)

\* a variant of map whose error branch passes on the code alone
mapDropsMessage(r, f) ==
    IF is_error(r)
    THEN [result |-> error(IntType, r.error_code, ""), invoked |-> <<>>]
    ELSE [result |-> success(IntType, IntValue(Apply(f, AsInt(r.value)))),
          invoked |-> <<f>>]

\* Result<T>::map(f): the returned Result and the functions invoked
map(r, f) ==
    IF is_error(r)
    THEN [result |-> error(IntType, r.error_code, r.error_message), invoked |-> <<>>]
    ELSE [result |-> success(IntType, IntValue(Apply(f, AsInt(r.value)))),
          invoked |-> <<f>>]

\* an expression of type from can be returned as type to: Result has only its
\* copy and move constructors, the three-argument constructor is private
Convertible(from, to) == from = to

\* Result<T>::and_then(f). ReturnType is invoke_result_t<F, T> and the
\* declared return type is Result<ReturnType>; for a non-void ReturnType the
\* body returns f(value()), of type ReturnType, as a Result<ReturnType>.
and_then(r, k) ==
    LET ReturnType == k.ret IN
    IF ReturnType = VoidType
    THEN IF is_error(r)
         THEN [result |-> error(VoidType, r.error_code, r.error_message),
               invoked |-> <<>>]
         ELSE [result |-> success(VoidType, NoValue), invoked |-> <<k.name>>]
    ELSE IF ~Convertible(ReturnType, ResultOf(ReturnType))
         THEN [result |-> IllFormed, invoked |-> <<>>]
         ELSE IF is_error(r)
              THEN [result |-> error(ReturnType, r.error_code, r.error_message),
                    invoked |-> <<>>]
              ELSE [result |-> Call(k, AsInt(r.value)), invoked |-> <<k.name>>]

MapOp(f) == [op |-> "map", fn |-> f]
AndThenOp(k) == [op |-> "and_then", fn |-> k.name]

\* cur.map(f)
Map ==
    /\ Len(ops) < MaxChain
    /\ cur.type = IntType
    /\ \E f \in MapFunctions :
          /\ cur' = map(cur, f).result
          /\ invoked' = invoked \o map(cur, f).invoked
          /\ ops' = Append(ops, MapOp(f))
    /\ UNCHANGED input
    /\ UNCHANGED notResult

\* cur.and_then(k)
AndThen ==
    /\ Len(ops) < MaxChain
    /\ cur.type = IntType
    /\ \E k \in Continuations :
          /\ cur' = and_then(cur, k).result
          /\ invoked' = invoked \o and_then(cur, k).invoked
          /\ ops' = Append(ops, AndThenOp(k))
    /\ UNCHANGED input
    /\ UNCHANGED notResult

\* the first Result of a chain: Result<int>::success(x) or
\* Result<int>::error(c, m)
FromInput(in) ==
    IF in.kind = "success" THEN success(IntType, IntValue(in.value))
    ELSE error(IntType, in.code, in.message)

Inputs ==
    {[kind |-> "success", value |-> x, code |-> "SUCCESS", message |-> ""] :
        x \in 0 .. MaxValue}
    \cup {[kind |-> "error", value |-> 0, code |-> c, message |-> m] :
             c \in ErrorCode, m \in Messages}

ResultInit ==
    /\ AllocatorIdle
    /\ OthersIdle
    /\ MemoryPoolIdle
    /\ TaskIdle
    /\ LimiterIdle
    /\ PoolIdle
    /\ ObjectPoolIdle
    /\ input \in Inputs
    /\ cur = FromInput(input)
    /\ ops = <<>>
    /\ invoked = <<>>

ResultNext == Map \/ AndThen

ResultSpec == ResultInit /\ [][ResultNext]_vars

\* the calls so far are all map calls
OnlyMaps == \A i \in DOMAIN ops : ops[i].op = "map"

RECURSIVE Composed(_, _)
Composed(fs, x) ==
    IF fs = <<>> THEN x ELSE Composed(Tail(fs), Apply(Head(fs).fn, x))

\* C17: success(x).map(f).map(g) is a success holding g(f(x)), for chains of
\* any length; error(c, m).map(f) is an error with code c and the message of
\* error(c, m), which is m (the text of c when m is empty), and f is not
\* invoked.
C17_MapComposes ==
    OnlyMaps =>
        IF input.kind = "success"
        THEN /\ is_success(cur)
             /\ cur.value = IntValue(Composed(ops, input.value))
             /\ invoked = [i \in DOMAIN ops |-> ops[i].fn]
        ELSE /\ is_error(cur)
             /\ cur.error_code = input.code
             /\ cur.error_message = FromInput(input).error_message
             /\ input.message # "" => cur.error_message = input.message
             /\ invoked = <<>>

\* success(2).map(f).map(g) with two different functions has been evaluated
C17_Witness ==
    /\ input.kind = "success"
    /\ input.value = 2
    /\ Len(ops) = 2
    /\ OnlyMaps
    /\ ops[1].fn # ops[2].fn
    /\ cur.value = IntValue(Apply(ops[2].fn, Apply(ops[1].fn, 2)))

\* C18: and_then(f) on an error Result with code c and message m returns an
\* error Result of f's result type with code c and message m and does not
\* invoke f; on a success holding v it returns exactly f(v).
C18_AndThenShortCircuits ==
    [][\A k \in Continuations :
          (ops' = Append(ops, AndThenOp(k)) /\ k.ret # VoidType)
          => /\ cur' # IllFormed
             /\ IF is_error(cur)
                THEN /\ is_error(cur')
                     /\ ResultOf(cur'.type) = k.ret
                     /\ cur'.error_code = cur.error_code
                     /\ cur'.error_message = cur.error_message
                     /\ invoked' = invoked
                ELSE /\ cur' = Call(k, AsInt(cur.value))
                     /\ invoked' = Append(invoked, k.name)]_vars

----------------------------------------------------------------------------
(* HighPerformanceMemoryPool::Impl (memory_optimizer.cpp): allocate_aligned  *)
(* and deallocate on one pool. Addresses are absolute, the arena starts at   *)
(* pool_base_. free_blocks_ is a std::vector that allocate_aligned changes   *)
(* with insert while it keeps using the iterator of its scan: when the       *)
(* vector has spare capacity the iterator still points at the same position, *)
(* which after an insert in front of it holds the inserted block; when the   *)
(* insert reallocates, the iterator points into freed storage and what       *)
(* follows is undefined.                                                     *)

\* size of the arena in bytes
MemPoolBytes == 256
\* allocate_aligned and deallocate calls per run
MaxMemCalls == 3

\* aligned_alloc<64>: the arena starts at a multiple of 64
MemBases == {0, 64}
MemSizes == {8, 24, 64, 200}
MemAlignments == {8, 64, 128}

align_size(size, alignment) == ((size + alignment - 1) \div alignment) * alignment

align_pointer(ptr, alignment) == ((ptr + alignment - 1) \div alignment) * alignment

InsertAt(seq, i, x) == SubSeq(seq, 1, i - 1) \o <<x>> \o SubSeq(seq, i, Len(seq))

\* the scan of allocate_aligned from position i: the first block that is not
\* in use and holds size bytes behind its aligned address; 0 when there is none
RECURSIVE FitFrom(_, _, _, _)
FitFrom(fb, i, size, alignment) ==
    IF i > Len(fb) THEN 0
    ELSE IF /\ ~fb[i].in_use
            /\ fb[i].size >= size
            /\ fb[i].size >= size + (align_pointer(fb[i].ptr, alignment) - fb[i].ptr)
         THEN i
         ELSE FitFrom(fb, i + 1, size, alignment)

\* the capacity a std::vector of n elements may have after it has grown
NewCapacity(n) == {n + 1, IF n = 0 THEN 1 ELSE 2 * n}

\* what a block read through a dangling iterator may look like
Garbage == [ptr |-> NULL, size |-> 0, in_use |-> FALSE]

\* the outcomes of allocate_aligned(size, alignment) in the current state:
\* the status of the process, the two vectors, the capacity and the pointer
\* returned
AllocateAlignedOutcomes(requested, alignment) ==
    LET size == align_size(requested, alignment)
        fb == mp_free_blocks_
        i == FitFrom(fb, 1, size, alignment)
    IN
    IF i = 0
    THEN {[status |-> "ok", free |-> fb, capacity |-> free_capacity,
           used |-> used_blocks_, ret |-> NULL, allocated |-> total_allocated_]}
    ELSE
    LET aligned_ptr == align_pointer(fb[i].ptr, alignment)
        offset == aligned_ptr - fb[i].ptr
        marked == [fb EXCEPT ![i].in_use = TRUE]
        prefix_block == [ptr |-> fb[i].ptr, size |-> offset, in_use |-> FALSE]
        afterPrefix == IF offset > 0 THEN InsertAt(marked, i, prefix_block)
                       ELSE marked
        prefixReallocates == offset > 0 /\ Len(fb) = free_capacity
        \* `it` still is position i
        needSuffix == afterPrefix[i].size > size + offset + alignment
        remaining_block ==
            [ptr |-> aligned_ptr + size,
             size |-> afterPrefix[i].size - size - offset, in_use |-> FALSE]
        afterSuffix == IF needSuffix
                       THEN InsertAt(afterPrefix, i + 1, remaining_block)
                       ELSE afterPrefix
        suffixReallocates == needSuffix /\ Len(afterPrefix) = free_capacity
        updated == [afterSuffix EXCEPT ![i].ptr = aligned_ptr, ![i].size = size]
        intended == [ptr |-> aligned_ptr, size |-> size, in_use |-> TRUE]
        crashed == [status |-> "crashed", free |-> fb, capacity |-> free_capacity,
                    used |-> used_blocks_, ret |-> NULL,
                    allocated |-> total_allocated_]
        \* the iterator dangles after the insert that produced vector v: the
        \* block copied to used_blocks_ and the position erase removes are
        \* whatever the freed storage and the heap make of them
        Dangling(v) ==
            {crashed} \cup
            {[status |-> "ok", free |-> RemoveAt(v, j), capacity |-> c,
              used |-> Append(used_blocks_, u), ret |-> aligned_ptr,
              allocated |-> total_allocated_ + size] :
                j \in DOMAIN v, c \in NewCapacity(Len(v) - 1),
                u \in {intended, Garbage}}
    IN
    IF prefixReallocates THEN Dangling(afterPrefix)
    ELSE IF suffixReallocates THEN Dangling(afterSuffix)
    ELSE {[status |-> "ok", free |-> RemoveAt(updated, i),
           capacity |-> free_capacity,
           used |-> Append(used_blocks_, updated[i]), ret |-> aligned_ptr,
           allocated |-> total_allocated_ + size]}
         \cup (IF offset > 0 THEN {crashed} ELSE {})

\* allocate_aligned(size, alignment)
allocate_aligned(size, alignment) ==
    /\ mp_status = "ok"
    /\ mp_call.n < MaxMemCalls
    /\ \E o \in AllocateAlignedOutcomes(size, alignment) :
          /\ mp_status' = o.status
          /\ mp_free_blocks_' = o.free
          /\ free_capacity' = o.capacity
          /\ used_blocks_' = o.used
          /\ total_allocated_' = o.allocated
          /\ mp_call' = [n |-> mp_call.n + 1, op |-> "allocate_aligned",
                         ret |-> o.ret]
          /\ mp_out' = IF o.ret = NULL THEN mp_out ELSE mp_out \cup {o.ret}
    /\ UNCHANGED <<pool_base_, pool_size_bytes_>>
    /\ UNCHANGED notMemoryPool

AllocateAligned == \E size \in MemSizes, alignment \in MemAlignments :
                       allocate_aligned(size, alignment)

\* the merge loop of merge_adjacent_blocks over the sorted vector, from i
RECURSIVE MergeAdjacentFrom(_, _)
MergeAdjacentFrom(fb, i) ==
    IF i > Len(fb) THEN fb
    ELSE IF /\ i + 1 <= Len(fb)
            /\ fb[i].ptr + fb[i].size = fb[i + 1].ptr
            /\ ~fb[i].in_use
            /\ ~fb[i + 1].in_use
         THEN MergeAdjacentFrom(
                  [RemoveAt(fb, i + 1) EXCEPT ![i].size = fb[i].size + fb[i + 1].size],
                  i)
         ELSE MergeAdjacentFrom(fb, i + 1)

\* merge_adjacent_blocks: std::sort by ptr, then the merge loop
merge_adjacent_blocks(fb) == {MergeAdjacentFrom(sorted, 1) : sorted \in SortedByPtr(fb)}

\* the first block of used_blocks_ whose ptr is ptr, 0 when there is none
RECURSIVE FindUsed(_, _, _)
FindUsed(used, i, ptr) ==
    IF i > Len(used) THEN 0
    ELSE IF used[i].ptr = ptr THEN i ELSE FindUsed(used, i + 1, ptr)

\* deallocate(ptr) of a pointer that allocate_aligned returned
MemDeallocate ==
    /\ mp_status = "ok"
    /\ mp_call.n < MaxMemCalls
    /\ \E ptr \in mp_out :
          LET i == FindUsed(used_blocks_, 1, ptr) IN
          /\ mp_out' = mp_out \ {ptr}
          /\ IF i = 0
             THEN UNCHANGED <<mp_free_blocks_, free_capacity, used_blocks_,
                              total_allocated_>>
             ELSE /\ total_allocated_' = total_allocated_ - used_blocks_[i].size
                  /\ mp_free_blocks_' \in
                        merge_adjacent_blocks(
                            Append(mp_free_blocks_,
                                   [used_blocks_[i] EXCEPT !.in_use = FALSE]))
                  /\ free_capacity' \in
                        IF Len(mp_free_blocks_) < free_capacity
                        THEN {free_capacity}
                        ELSE NewCapacity(Len(mp_free_blocks_))
                  /\ used_blocks_' = RemoveAt(used_blocks_, i)
    /\ mp_call' = [n |-> mp_call.n + 1, op |-> "deallocate", ret |-> NULL]
    /\ UNCHANGED <<pool_base_, pool_size_bytes_, mp_status>>
    /\ UNCHANGED notMemoryPool

MemoryPoolInit ==
    /\ AllocatorIdle
    /\ OthersIdle
    /\ TaskIdle
    /\ LimiterIdle
    /\ PoolIdle
    /\ ObjectPoolIdle
    /\ ResultIdle
    /\ \E base \in MemBases : MemoryPool(base, MemPoolBytes)

MemoryPoolNext == AllocateAligned \/ MemDeallocate

MemoryPoolSpec == MemoryPoolInit /\ [][MemoryPoolNext]_vars

RECURSIVE SumUsed(_)
SumUsed(used) == IF used = <<>> THEN 0 ELSE Head(used).size + SumUsed(Tail(used))

RECURSIVE SumReusable(_)
SumReusable(fb) ==
    IF fb = <<>> THEN 0
    ELSE (IF Head(fb).in_use THEN 0 ELSE Head(fb).size) + SumReusable(Tail(fb))

Elements(seq) == {seq[k] : k \in DOMAIN seq}

\* C20: when the first fitting free block starts at an address that is not a
\* multiple of the requested alignment, allocate_aligned returns the aligned
\* address, records an in-use block of exactly the rounded size there, leaves
\* the offset bytes in front as a free prefix block and a remainder larger than
\* alignment as a free suffix block, and (when the remainder is split off or
\* empty) used plus reusable free sizes sum to what they were.
C20_AlignedSplitTiles ==
    [][\A requested \in MemSizes, alignment \in MemAlignments :
          LET size == align_size(requested, alignment)
              i == FitFrom(mp_free_blocks_, 1, size, alignment)
              block == mp_free_blocks_[i]
              aligned_ptr == align_pointer(block.ptr, alignment)
              offset == aligned_ptr - block.ptr
              remainder == block.size - size - offset
          IN  (/\ i # 0
               /\ offset > 0
               /\ allocate_aligned(requested, alignment))
              => /\ mp_status' = "ok"
                 /\ mp_call'.ret = aligned_ptr
                 /\ used_blocks_' =
                       Append(used_blocks_,
                              [ptr |-> aligned_ptr, size |-> size, in_use |-> TRUE])
                 /\ [ptr |-> block.ptr, size |-> offset, in_use |-> FALSE]
                       \in Elements(mp_free_blocks_')
                 /\ remainder > alignment
                    => [ptr |-> aligned_ptr + size, size |-> remainder,
                        in_use |-> FALSE] \in Elements(mp_free_blocks_')
                 /\ (remainder = 0 \/ remainder > alignment)
                    => SumUsed(used_blocks_') + SumReusable(mp_free_blocks_')
                       = SumUsed(used_blocks_) + SumReusable(mp_free_blocks_)]_vars

----------------------------------------------------------------------------
(* Specification LifeSpec: every call a program can make on one              *)
(* HighPerformanceAllocator: allocate, deallocate of a pointer it holds,     *)
(* deallocate of a pointer that is not live (nullptr, an address allocate    *)
(* never returned, a pointer already given back) and compact.                *)

\* size of the arena
LifePool == 4
\* successful allocate calls per run
LifeAllocs == 2

\* request sizes: nothing, parts of the arena, all of it, more than it, and
\* the top of the word range where size + alignment - 1 wraps around
LifeSizes == (0 .. LifePool + 1) \cup {MaxWord - 1}
LifeAlignments == {1, 2, 4}

\* the pointers callers hold
LivePointers == {h.ptr : h \in DOMAIN live}

\* the addresses a caller can pass that are not live
NotLivePointers == ({NULL} \cup (0 .. LifePool)) \ LivePointers

\* merge_free_blocks on an empty vector: free_blocks_.size() - 1 wraps around
\* to the largest size_t, the loop reads free_blocks_[0] and free_blocks_[1]
\* of a vector that has no elements and goes on from there. The call never
\* returns normally: the scan leaves the mapped memory (segmentation fault)
\* or first finds stale bytes that look like adjacent blocks and writes to
\* them.
MergeEmptyOutcomes == {"crashed", "corrupted"}

\* void compact(), under the mutex
compact ==
    /\ call' = [op |-> "compact", ret |-> NULL]
    /\ IF free_blocks_ = <<>>
       THEN /\ alloc_status' \in MergeEmptyOutcomes
            /\ UNCHANGED allocVars
       ELSE /\ free_blocks_' \in merge_free_blocks(free_blocks_)
            /\ UNCHANGED <<pool_size_, allocated_blocks_, allocated_size_, stats_>>
            /\ UNCHANGED alloc_status

LifeAllocate ==
    /\ alloc_status = "ok"
    /\ stats_.allocation_count < LifeAllocs
    /\ \E size \in LifeSizes, alignment \in LifeAlignments :
          AllocateCall(size, alignment)

\* a caller gives one of its allocations back
LifeDeallocate ==
    /\ alloc_status = "ok"
    /\ \E h \in DOMAIN live :
          /\ deallocate(h.ptr, h.size)
          /\ live' = BagRemove(live, h)
          /\ given' = given \cup {h.ptr}
    /\ UNCHANGED <<thr, alloc_status, tried>>
    /\ UNCHANGED <<taskVars, limVars, poolVars, objVars, resVars, mpVars,
                   stealVars, concVars, mgrVars, sessVars>>

\* a variant of deallocate that takes the block size from its argument when
\* the pointer is not in the table
deallocateUnchecked(ptr, size) ==
    /\ call' = [op |-> "deallocate", ret |-> NULL]
    /\ IF ptr # NULL /\ ptr \in DOMAIN allocated_blocks_
       THEN deallocate(ptr, size)
       ELSE /\ stats_' = StatsAfterDeallocate(stats_, size)
            /\ UNCHANGED <<pool_size_, free_blocks_, allocated_blocks_,
                           allocated_size_>>

\* why a pointer that is not live is not live
NotLiveKind(ptr) ==
    IF ptr = NULL THEN "nullptr"
    ELSE IF ptr \in given THEN "given_back"
    ELSE "never_returned"

\* deallocate as a caller of LifeSpec reaches it
LifeDeallocateCall(ptr, size) == deallocate(ptr, size)

\* a caller passes a pointer that is not live
DeallocateNotLive ==
    /\ alloc_status = "ok"
    /\ \E ptr \in NotLivePointers, size \in {0, LifePool} :
          /\ LifeDeallocateCall(ptr, size)
          /\ tried' = tried \cup {NotLiveKind(ptr)}
    /\ UNCHANGED <<live, thr, alloc_status, given>>
    /\ UNCHANGED <<taskVars, limVars, poolVars, objVars, resVars, mpVars,
                   stealVars, concVars, mgrVars, sessVars>>

Compact ==
    /\ alloc_status = "ok"
    /\ compact
    /\ UNCHANGED <<live, thr, given, tried>>
    /\ UNCHANGED <<taskVars, limVars, poolVars, objVars, resVars, mpVars,
                   stealVars, concVars, mgrVars, sessVars>>

LifeNext == LifeAllocate \/ LifeDeallocate \/ DeallocateNotLive \/ Compact

LifeInit ==
    /\ InitAllocator(LifePool)
    /\ call = NoCall
    /\ live = <<>>
    /\ thr = IdleThreads
    /\ TaskIdle
    /\ LimiterIdle
    /\ RestIdle

LifeSpec == LifeInit /\ [][LifeNext]_vars

\* two blocks of the free list where one ends at the address the other starts
AdjacentFree(fb) ==
    \E i, j \in DOMAIN fb : i # j /\ fb[i].ptr + fb[i].size = fb[j].ptr

\* C21: after a deallocate or compact call has returned, and after any
\* allocate that follows, no two blocks of the free list are address-adjacent.
\* The initial free list is a single block, so this is the invariant that the
\* free list never holds an adjacent pair.
C21_FreeListCoalesced == alloc_status = "ok" => ~AdjacentFree(free_blocks_)

\* C24: compact() is safe and content-preserving in every reachable state,
\* the one with an empty free list included: the call returns, has read no
\* free-list entry that does not exist, and leaves the allocated blocks, the
\* number of free bytes and the statistics as they were.
C24_CompactPreserves ==
    [][(alloc_status = "ok" /\ call'.op = "compact")
          => /\ alloc_status' = "ok"
             /\ allocated_blocks_' = allocated_blocks_
             /\ SumSizes(free_blocks_') = SumSizes(free_blocks_)
             /\ allocated_size_' = allocated_size_
             /\ stats_' = stats_]_vars

\* C25: deallocate with nullptr, with an address allocate never returned, or
\* with a pointer that has already been given back and is not live again,
\* leaves the free list, the table of allocated blocks, current_usage and
\* deallocation_count as they were.
C25_DeallocateNotLiveNoOp ==
    [][DeallocateNotLive
          => /\ free_blocks_' = free_blocks_
             /\ allocated_blocks_' = allocated_blocks_
             /\ stats_'.current_usage = stats_.current_usage
             /\ stats_'.deallocation_count = stats_.deallocation_count]_vars

\* deallocate has been called with nullptr, with an address that was never
\* returned and with a pointer already given back, while blocks are allocated
\* and free, and the statistics still count one deallocation per pointer
\* given back
C25_Witness ==
    /\ alloc_status = "ok"
    /\ call.op = "deallocate"
    /\ tried = {"nullptr", "never_returned", "given_back"}
    /\ DOMAIN allocated_blocks_ # {}
    /\ free_blocks_ # <<>>
    /\ stats_.deallocation_count = 1

\* C26: in every reachable state allocation_count - deallocation_count is the
\* number of entries of the table of allocated blocks, current_usage is the
\* sum of their recorded sizes and is what get_allocated_size() returns, and
\* peak_usage >= current_usage, for all request sizes including 0.
C26_StatsAgree ==
    alloc_status = "ok" =>
        /\ stats_.allocation_count - stats_.deallocation_count
              = Cardinality(DOMAIN allocated_blocks_)
        /\ stats_.current_usage = SumMap(allocated_blocks_)
        /\ stats_.current_usage = allocated_size_
        /\ stats_.peak_usage >= stats_.current_usage

----------------------------------------------------------------------------
(* Specification StealSpec: the pool with several workers. submit_task and   *)
(* submit_priority_task are those of scheduler.hpp; worker_thread and        *)
(* try_steal_task are declared there but not defined in the sources, so the  *)
(* workers follow the component design: a worker takes tasks from the shared *)
(* queues into its own queue, runs the tasks of its own queue, and with an   *)
(* empty own queue steals one task from a sibling. Every operation on a      *)
(* queue is made under queue_mutex_, the one lock of the class, and takes    *)
(* the task out of the queue it comes from.                                  *)

\* submissions per run
StealLen == 2

Workers == {1, 2}

WorkerWaiting == [pc |-> "idle", task |-> 0]

StealInit ==
    /\ AllocatorIdle
    /\ MemoryPoolIdle
    /\ TaskIdle
    /\ LimiterIdle
    /\ ObjectPoolIdle
    /\ ResultIdle
    /\ LifeIdle
    /\ ConcIdle
    /\ ManagerIdle
    /\ SessionIdle
    /\ priority_tasks_ = <<>>
    /\ prog \in Programs(StealLen)
    /\ sub = SubIdle
    /\ started = <<>>
    /\ local_ = [w \in Workers |-> <<>>]
    /\ wk = [w \in Workers |-> WorkerWaiting]
    /\ runs = <<>>

notSteal == <<allocVars, callerVars, limVars, objVars, resVars, mpVars, lifeVars,
              concVars, mgrVars,
              scn, frames, stack, mainT, future, now, worker, prog, sub, started, sessVars>>

\* woken by condition_, the worker takes the top of the priority queue into
\* its own queue
FetchPriority(w) ==
    /\ wk[w].pc = "idle"
    /\ local_[w] = <<>>
    /\ \E i \in TopPositions(priority_tasks_) :
          /\ local_' = [local_ EXCEPT ![w] = Append(@, priority_tasks_[i])]
          /\ priority_tasks_' = RemoveAt(priority_tasks_, i)
    /\ UNCHANGED <<tasks_, shutdown_, wk, runs>>
    /\ UNCHANGED notSteal

\* woken by condition_, the worker takes the head of the FIFO queue into its
\* own queue
FetchFifo(w) ==
    /\ wk[w].pc = "idle"
    /\ local_[w] = <<>>
    /\ tasks_ # <<>>
    /\ local_' = [local_ EXCEPT ![w] = Append(@, Head(tasks_))]
    /\ tasks_' = Tail(tasks_)
    /\ UNCHANGED <<priority_tasks_, shutdown_, wk, runs>>
    /\ UNCHANGED notSteal

\* pop from own queue: the worker runs the task at the head of its queue
PopOwn(w) ==
    /\ wk[w].pc = "idle"
    /\ local_[w] # <<>>
    /\ wk' = [wk EXCEPT ![w] = [pc |-> "running", task |-> Head(local_[w]).id]]
    /\ runs' = Append(runs, [id |-> Head(local_[w]).id, by |-> w, via |-> "pop"])
    /\ local_' = [local_ EXCEPT ![w] = Tail(@)]
    /\ UNCHANGED <<tasks_, priority_tasks_, shutdown_>>
    /\ UNCHANGED notSteal

\* a variant of try_steal_task that copies the task and leaves it in the
\* sibling's queue
try_steal_task_copy(w, v) ==
    /\ wk[w].pc = "idle"
    /\ local_[w] = <<>>
    /\ v # w
    /\ local_[v] # <<>>
    /\ LET task == local_[v][Len(local_[v])]
       IN  /\ wk' = [wk EXCEPT ![w] = [pc |-> "running", task |-> task.id]]
           /\ runs' = Append(runs, [id |-> task.id, by |-> w, via |-> "steal"])
           /\ UNCHANGED local_
    /\ UNCHANGED <<tasks_, priority_tasks_, shutdown_>>
    /\ UNCHANGED notSteal

\* own queue empty: try_steal_task takes one task out of the queue of the
\* sibling v, and the worker runs it
try_steal_task(w, v) ==
    /\ wk[w].pc = "idle"
    /\ local_[w] = <<>>
    /\ v # w
    /\ local_[v] # <<>>
    /\ LET task == local_[v][Len(local_[v])]
       IN  /\ wk' = [wk EXCEPT ![w] = [pc |-> "running", task |-> task.id]]
           /\ runs' = Append(runs, [id |-> task.id, by |-> w, via |-> "steal"])
           /\ local_' = [local_ EXCEPT ![v] = SubSeq(@, 1, Len(@) - 1)]
    /\ UNCHANGED <<tasks_, priority_tasks_, shutdown_>>
    /\ UNCHANGED notSteal

\* the task returns
TaskDone(w) ==
    /\ wk[w].pc = "running"
    /\ wk' = [wk EXCEPT ![w] = WorkerWaiting]
    /\ UNCHANGED <<tasks_, priority_tasks_, shutdown_, local_, runs>>
    /\ UNCHANGED notSteal

\* the idle worker sees the flag and leaves its loop
WorkerLeaves(w) ==
    /\ wk[w].pc = "idle"
    /\ shutdown_
    /\ wk' = [wk EXCEPT ![w] = [pc |-> "shutdown", task |-> 0]]
    /\ UNCHANGED <<tasks_, priority_tasks_, shutdown_, local_, runs>>
    /\ UNCHANGED notSteal

WorkerFetchPriority == \E w \in Workers : FetchPriority(w)
WorkerFetchFifo == \E w \in Workers : FetchFifo(w)
WorkerPopOwn == \E w \in Workers : PopOwn(w)
WorkerSteal == \E w, v \in Workers : try_steal_task(w, v)
WorkerTaskDone == \E w \in Workers : TaskDone(w)
WorkerShutdown == \E w \in Workers : WorkerLeaves(w)

StealNext ==
    \/ SubmitEnter
    \/ SubmitCheck
    \/ SubmitEmplace
    \/ SubmitReturn
    \/ Shutdown
    \/ WorkerFetchPriority
    \/ WorkerFetchFifo
    \/ WorkerPopOwn
    \/ WorkerSteal
    \/ WorkerTaskDone
    \/ WorkerShutdown

StealSpec == StealInit /\ [][StealNext]_vars

\* the submissions that returned a future
Accepted == {i \in DOMAIN sub.outcome : sub.outcome[i] = "future"}

\* C22: a task whose submit_task or submit_priority_task call returned a
\* future is executed at most once, by one worker: there are no two
\* executions of the same task, whether by the worker that took it from the
\* queue, by a worker that stole it, or by both. A task that is queued is
\* executed only after it was put on the queue.
C22_ExecutedAtMostOnce ==
    /\ \A i, j \in DOMAIN runs : runs[i].id = runs[j].id => i = j
    /\ \A i \in DOMAIN runs : runs[i].id < sub.at \/ sub.pc = "queued"

\* two accepted tasks have run, one by the worker that took it from the shared
\* queue and one by a worker that stole it from that worker's sibling
C22_Witness ==
    /\ Cardinality(Accepted) = StealLen
    /\ \E i, j \in DOMAIN runs :
          /\ runs[i].via = "pop"
          /\ runs[j].via = "steal"
          /\ runs[i].by # runs[j].by
          /\ {runs[i].id, runs[j].id} \subseteq Accepted

----------------------------------------------------------------------------
(* Specification ConcSpec: ObjectPool<T>::acquire and release                *)
(* (nex/core/memory_manager.hpp) called by several threads. Objects have     *)
(* identities: pool_ holds the objects resident in the pool, a thread holds  *)
(* the unique_ptrs acquire() returned to it, and between the steps of a call *)
(* the object is in the local variable or the parameter obj of the call.     *)

\* acquire and release calls per run
MaxConcCalls == 4

PoolThreads == {1, 2}
InitialSizes == {0, 1, 2}
MaxSizes == {1, 2}

PoolThreadIdle == [pc |-> "idle", obj |-> 0, held |-> {}]

ConcInit ==
    /\ AllocatorIdle
    /\ MemoryPoolIdle
    /\ TaskIdle
    /\ LimiterIdle
    /\ PoolIdle
    /\ ResultIdle
    /\ LifeIdle
    /\ StealIdle
    /\ ManagerIdle
    /\ SessionIdle
    /\ \E initial_size \in InitialSizes, max_size \in MaxSizes :
          /\ max_size_ = max_size
          /\ pool_ = [i \in 1 .. initial_size |-> i]
          /\ hist = [calls |-> 0, constructed |-> initial_size, checkouts |-> 0,
                     releases |-> 0, destroyed |-> 0]
    /\ allocated_count_ = 0
    /\ acquired_count_ = 0
    /\ released_count_ = 0
    /\ out = 0
    /\ mutex_ = 0
    /\ othr = [t \in PoolThreads |-> PoolThreadIdle]

notConc == <<allocVars, callerVars, taskVars, limVars, poolVars, resVars, mpVars,
             lifeVars, stealVars, mgrVars, sessVars>>

\* acquire(): std::lock_guard lock(mutex_)
AcquireLock(t) ==
    /\ othr[t].pc = "idle"
    /\ hist.calls < MaxConcCalls
    /\ mutex_ = 0
    /\ mutex_' = t
    /\ othr' = [othr EXCEPT ![t].pc = "acquire"]
    /\ hist' = [hist EXCEPT !.calls = @ + 1]
    /\ UNCHANGED <<pool_, max_size_, allocated_count_, acquired_count_,
                   released_count_, out>>
    /\ UNCHANGED notConc

\* a variant of the body of acquire() without pool_.pop_back()
AcquireBodyKeepsBack(t) ==
    /\ othr[t].pc = "acquire"
    /\ IF pool_ # <<>>
       THEN /\ othr' = [othr EXCEPT ![t].pc = "acquired",
                                    ![t].obj = pool_[Len(pool_)]]
            /\ acquired_count_' = acquired_count_ + 1
            /\ UNCHANGED <<pool_, allocated_count_, hist>>
       ELSE /\ allocated_count_' = allocated_count_ + 1
            /\ othr' = [othr EXCEPT ![t].pc = "acquired",
                                    ![t].obj = hist.constructed + 1]
            /\ hist' = [hist EXCEPT !.constructed = @ + 1]
            /\ UNCHANGED <<pool_, acquired_count_>>
    /\ UNCHANGED <<max_size_, released_count_, out, mutex_>>
    /\ UNCHANGED notConc

\* the body of acquire(): the back of pool_ is moved out and popped, or a new
\* object is made
AcquireBody(t) ==
    /\ othr[t].pc = "acquire"
    /\ IF pool_ # <<>>
       THEN /\ othr' = [othr EXCEPT ![t].pc = "acquired",
                                    ![t].obj = pool_[Len(pool_)]]
            /\ pool_' = SubSeq(pool_, 1, Len(pool_) - 1)
            /\ acquired_count_' = acquired_count_ + 1
            /\ UNCHANGED <<allocated_count_, hist>>
       ELSE /\ allocated_count_' = allocated_count_ + 1
            /\ othr' = [othr EXCEPT ![t].pc = "acquired",
                                    ![t].obj = hist.constructed + 1]
            /\ hist' = [hist EXCEPT !.constructed = @ + 1]
            /\ UNCHANGED <<pool_, acquired_count_>>
    /\ UNCHANGED <<max_size_, released_count_, out, mutex_>>
    /\ UNCHANGED notConc

\* return obj: the lock is dropped and the caller has the object
AcquireReturn(t) ==
    /\ othr[t].pc = "acquired"
    /\ mutex_' = 0
    /\ othr' = [othr EXCEPT ![t] = [pc |-> "idle", obj |-> 0,
                                    held |-> othr[t].held \cup {othr[t].obj}]]
    /\ hist' = [hist EXCEPT !.checkouts = @ + 1]
    /\ UNCHANGED <<pool_, max_size_, allocated_count_, acquired_count_,
                   released_count_, out>>
    /\ UNCHANGED notConc

\* release(std::move(p)) with an object the caller holds: obj is not null
ReleaseCall(t) ==
    /\ othr[t].pc = "idle"
    /\ hist.calls < MaxConcCalls
    /\ \E o \in othr[t].held :
          othr' = [othr EXCEPT ![t] = [pc |-> "release", obj |-> o,
                                       held |-> othr[t].held \ {o}]]
    /\ hist' = [hist EXCEPT !.calls = @ + 1]
    /\ UNCHANGED <<pool_, max_size_, allocated_count_, acquired_count_,
                   released_count_, out, mutex_>>
    /\ UNCHANGED notConc

\* release(): std::lock_guard lock(mutex_)
ReleaseLock(t) ==
    /\ othr[t].pc = "release"
    /\ mutex_ = 0
    /\ mutex_' = t
    /\ othr' = [othr EXCEPT ![t].pc = "releasing"]
    /\ UNCHANGED <<pool_, max_size_, allocated_count_, acquired_count_,
                   released_count_, out, hist>>
    /\ UNCHANGED notConc

\* the body of release() and its return: the object goes to the back of pool_
\* when there is room and is destroyed with the parameter otherwise
ReleaseBody(t) ==
    /\ othr[t].pc = "releasing"
    /\ IF Len(pool_) < max_size_
       THEN /\ pool_' = Append(pool_, othr[t].obj)
            /\ released_count_' = released_count_ + 1
            /\ hist' = [hist EXCEPT !.releases = @ + 1]
       ELSE /\ hist' = [hist EXCEPT !.releases = @ + 1, !.destroyed = @ + 1]
            /\ UNCHANGED <<pool_, released_count_>>
    /\ mutex_' = 0
    /\ othr' = [othr EXCEPT ![t].pc = "idle", ![t].obj = 0]
    /\ UNCHANGED <<max_size_, allocated_count_, acquired_count_, out>>
    /\ UNCHANGED notConc

ThreadAcquireLock == \E t \in PoolThreads : AcquireLock(t)
ThreadAcquireBody == \E t \in PoolThreads : AcquireBody(t)
ThreadAcquireReturn == \E t \in PoolThreads : AcquireReturn(t)
ThreadReleaseCall == \E t \in PoolThreads : ReleaseCall(t)
ThreadReleaseLock == \E t \in PoolThreads : ReleaseLock(t)
ThreadReleaseBody == \E t \in PoolThreads : ReleaseBody(t)

ConcNext ==
    \/ ThreadAcquireLock
    \/ ThreadAcquireBody
    \/ ThreadAcquireReturn
    \/ ThreadReleaseCall
    \/ ThreadReleaseLock
    \/ ThreadReleaseBody

ConcSpec == ConcInit /\ [][ConcNext]_vars

\* the objects thread t owns: those it holds and the one in its call
OwnedBy(t) == othr[t].held \cup (IF othr[t].obj = 0 THEN {} ELSE {othr[t].obj})

\* in how many places object o is: positions of pool_ and owning threads
Places(o) ==
    Cardinality({i \in DOMAIN pool_ : pool_[i] = o})
    + Cardinality({t \in PoolThreads : o \in OwnedBy(t)})

\* C23: in every interleaving of acquire() and release() calls each object is
\* in at most one place, resident in the pool or with one caller, never both
\* and never with two callers; an object acquire() returns is with no other
\* caller. Every object that was made and not destroyed is in exactly one
\* place.
C23_ExclusiveOwnership ==
    /\ \A o \in 1 .. hist.constructed : Places(o) <= 1
    /\ Cardinality({o \in 1 .. hist.constructed : Places(o) = 1})
          = hist.constructed - hist.destroyed

\* both threads hold an object, after calls that took an object out of the
\* pool, made a new object and put an object back into the pool
C23_Witness ==
    /\ \A t \in PoolThreads : othr[t].pc = "idle" /\ othr[t].held # {}
    /\ hist.releases >= 1
    /\ released_count_ >= 1
    /\ acquired_count_ >= 1
    /\ allocated_count_ >= 1

----------------------------------------------------------------------------
(* Specification ManagerSpec: MemoryManager::initialize, shutdown and        *)
(* get_allocator (memory_manager.cpp) called by several threads on the one   *)
(* manager. A configuration is the text stored under the key                 *)
(* "allocator_pool_size_mb", a sequence of characters, or Absent when the    *)
(* key is missing. Objects made by std::make_unique are numbered in order of *)
(* creation.                                                                 *)

\* initialize and shutdown calls per run
MaxMgrCalls == 3

MgrThreads == {1, 2}

Absent == <<"absent">>
Digits == <<"0", "1", "2", "3", "4", "5", "6", "7", "8", "9">>
\* no key, "64", "2", "abc", "", "4x"
Configs == {Absent, <<"6", "4">>, <<"2">>, <<"a", "b", "c">>, <<>>, <<"4", "x">>}

DigitValue(c) == (CHOOSE d \in DOMAIN Digits : Digits[d] = c) - 1
IsDigit(c) == \E d \in DOMAIN Digits : Digits[d] = c

\* the digits at the front of the text, as a number
RECURSIVE ParseDigits(_, _)
ParseDigits(text, acc) ==
    IF text = <<>> \/ ~IsDigit(Head(text)) THEN acc
    ELSE ParseDigits(Tail(text), acc * 10 + DigitValue(Head(text)))

\* std::stoull: converts the digits at the front of the text and throws
\* std::invalid_argument when the text does not start with a digit
stoull(text) ==
    IF text = <<>> \/ ~IsDigit(Head(text))
    THEN [throws |-> TRUE, value |-> 0]
    ELSE [throws |-> FALSE, value |-> ParseDigits(text, 0)]

\* size_t pool_size: 64 MB by default, the configured number of MB otherwise
PoolSizeMb(config) ==
    IF config = Absent THEN [throws |-> FALSE, value |-> DefaultPoolMb]
    ELSE stoull(config)

MgrThreadIdle == [pc |-> "idle", config |-> Absent, ret |-> "none"]

ManagerInit ==
    /\ AllocatorIdle
    /\ MemoryPoolIdle
    /\ TaskIdle
    /\ LimiterIdle
    /\ PoolIdle
    /\ ObjectPoolIdle
    /\ ResultIdle
    /\ LifeIdle
    /\ StealIdle
    /\ ConcIdle
    /\ SessionIdle
    /\ initialized_ = FALSE
    /\ config_ = Absent
    /\ gpu_pool_ = 0
    /\ memory_mapper_ = 0
    /\ allocator_ = 0
    /\ config_mutex_ = 0
    /\ mgr = [t \in MgrThreads |-> MgrThreadIdle]
    /\ heap = [made |-> 0, destroyed |-> {}, refs |-> {}, calls |-> 0,
               sizes |-> <<>>]

notManager == <<allocVars, callerVars, taskVars, limVars, poolVars, objVars,
                resVars, mpVars, lifeVars, stealVars, concVars, sessVars>>

\* the objects a unique_ptr destroys when it is given something else
Destroyed(owned) == IF owned = 0 THEN {} ELSE {owned}

\* initialize(config): if (initialized_.load()) return success
InitializeCheck(t, config) ==
    /\ mgr[t].pc = "idle"
    /\ heap.calls < MaxMgrCalls
    /\ heap' = [heap EXCEPT !.calls = @ + 1]
    /\ IF initialized_
       THEN mgr' = [mgr EXCEPT ![t] = [pc |-> "idle", config |-> config,
                                       ret |-> "success"]]
       ELSE mgr' = [mgr EXCEPT ![t] = [pc |-> "checked", config |-> config,
                                       ret |-> "none"]]
    /\ UNCHANGED <<initialized_, config_, gpu_pool_, memory_mapper_, allocator_,
                   config_mutex_>>
    /\ UNCHANGED notManager

\* std::lock_guard lock(config_mutex_)
InitializeLock(t) ==
    /\ mgr[t].pc = "checked"
    /\ config_mutex_ = 0
    /\ config_mutex_' = t
    /\ mgr' = [mgr EXCEPT ![t].pc = "locked"]
    /\ UNCHANGED <<initialized_, config_, gpu_pool_, memory_mapper_, allocator_,
                   heap>>
    /\ UNCHANGED notManager

\* the try block for the configuration of thread t
TryBlock(t) ==
    LET config == mgr[t].config
        pool_size == PoolSizeMb(config)
    IN  /\ config_' = config
        /\ gpu_pool_' = heap.made + 1
        /\ memory_mapper_' = heap.made + 2
        /\ IF pool_size.throws
           THEN /\ heap' = [heap EXCEPT
                       !.made = @ + 2,
                       !.destroyed = @ \cup Destroyed(gpu_pool_)
                                       \cup Destroyed(memory_mapper_)]
                /\ mgr' = [mgr EXCEPT ![t].pc = "idle", ![t].ret = "error"]
                /\ UNCHANGED <<allocator_, initialized_>>
           ELSE /\ allocator_' = heap.made + 3
                /\ heap' = [heap EXCEPT
                       !.made = @ + 3,
                       !.destroyed = @ \cup Destroyed(gpu_pool_)
                                       \cup Destroyed(memory_mapper_)
                                       \cup Destroyed(allocator_),
                       !.sizes = Append(@, pool_size.value)]
                /\ initialized_' = TRUE
                /\ mgr' = [mgr EXCEPT ![t].pc = "idle", ![t].ret = "success"]

\* the body under the lock: config_ is stored, the GPU pool and the mapper are
\* made, the pool size is read (std::stoull may throw, the catch returns an
\* error Result), the allocator is made and initialized_ is set
InitializeBody(t) ==
    /\ mgr[t].pc = "locked"
    /\ TryBlock(t)
    /\ config_mutex_' = 0
    /\ UNCHANGED notManager

\* shutdown(): nothing when not initialized; otherwise, under the lock, the
\* three objects are destroyed and initialized_ is cleared. References to the
\* allocator end here.
ManagerShutdown(t) ==
    /\ mgr[t].pc = "idle"
    /\ heap.calls < MaxMgrCalls
    /\ config_mutex_ = 0
    /\ IF ~initialized_
       THEN /\ heap' = [heap EXCEPT !.calls = @ + 1]
            /\ UNCHANGED <<initialized_, gpu_pool_, memory_mapper_, allocator_>>
       ELSE /\ heap' = [heap EXCEPT
                   !.calls = @ + 1,
                   !.destroyed = @ \cup Destroyed(gpu_pool_)
                                   \cup Destroyed(memory_mapper_)
                                   \cup Destroyed(allocator_),
                   !.refs = {}]
            /\ gpu_pool_' = 0
            /\ memory_mapper_' = 0
            /\ allocator_' = 0
            /\ initialized_' = FALSE
    /\ mgr' = [mgr EXCEPT ![t].ret = "none"]
    /\ UNCHANGED <<config_, config_mutex_>>
    /\ UNCHANGED notManager

\* get_allocator(): throws when allocator_ is null, else returns *allocator_
get_allocator(t) ==
    /\ mgr[t].pc = "idle"
    /\ allocator_ # 0
    /\ allocator_ \notin heap.refs
    /\ heap' = [heap EXCEPT !.refs = @ \cup {allocator_}]
    /\ UNCHANGED <<initialized_, config_, gpu_pool_, memory_mapper_, allocator_,
                   config_mutex_, mgr>>
    /\ UNCHANGED notManager

\* what the three getters do: TRUE where the getter throws
GettersThrow == [gpu |-> gpu_pool_ = 0, mapper |-> memory_mapper_ = 0,
                 allocator |-> allocator_ = 0]

CallInitialize == \E t \in MgrThreads, config \in Configs : InitializeCheck(t, config)
TakeConfigMutex == \E t \in MgrThreads : InitializeLock(t)
RunInitialize == \E t \in MgrThreads : InitializeBody(t)
CallShutdown == \E t \in MgrThreads : ManagerShutdown(t)
CallGetAllocator == \E t \in MgrThreads : get_allocator(t)

ManagerNext ==
    \/ CallInitialize
    \/ TakeConfigMutex
    \/ RunInitialize
    \/ CallShutdown
    \/ CallGetAllocator

ManagerSpec == ManagerInit /\ [][ManagerNext]_vars

\* C27: initialize constructs the allocator once per lifecycle: in every
\* interleaving of initialize() calls, a step of initialize never replaces or
\* destroys an allocator that exists, so no reference obtained from
\* get_allocator() refers to a destroyed allocator before shutdown().
C27_InitializeOnce ==
    [][(\E t \in MgrThreads : mgr[t].pc = "locked" /\ mgr'[t].pc = "idle")
          => /\ allocator_ # 0 => allocator_' = allocator_
             /\ heap'.refs \cap heap'.destroyed = {}]_vars

\* C28: an initialize(config) call that returns an error Result leaves the
\* manager as it was: still not initialized, the stored config unchanged, and
\* get_allocator(), get_gpu_memory_pool() and get_memory_mapper() throwing as
\* before the call.
C28_FailedInitializeNoChange ==
    [][\A t \in MgrThreads :
          (mgr[t].pc = "locked" /\ mgr'[t].pc = "idle" /\ mgr'[t].ret = "error")
          => /\ initialized_' = initialized_
             /\ ~initialized_'
             /\ config_' = config_
             /\ GettersThrow' = GettersThrow]_vars

----------------------------------------------------------------------------
(* Specification SessionSpec: SessionManager::Impl (memory_optimizer.cpp):   *)
(* create_session, get_session and cleanup_expired_sessions on one manager,  *)
(* while time passes. Memory is counted in KiB, so the limit of              *)
(* memory_limit_mb_ * 1024 * 1024 bytes is MemoryLimitMb * 1024; the sizes   *)
(* used are far from the top of size_t, where total_memory_usage_ +          *)
(* memory_usage would wrap around.                                           *)

\* calls per run
MaxSessionCalls == 4
\* minutes the clock runs
MaxMinutes == 2

SessionIds == {1, 2, 3}
MaxSessionCounts == {1, 2, 1000}
Timeouts == {0, 1, 30}
\* nothing, half of the limit, the limit, and more than the limit
MemoryUsages == {0, 512 * 1024, MemoryLimitMb * 1024, MemoryLimitMb * 1024 + 1}

MemoryLimit == MemoryLimitMb * 1024

SessionInit ==
    /\ AllocatorIdle
    /\ MemoryPoolIdle
    /\ TaskIdle
    /\ LimiterIdle
    /\ PoolIdle
    /\ ObjectPoolIdle
    /\ ResultIdle
    /\ LifeIdle
    /\ StealIdle
    /\ ConcIdle
    /\ ManagerIdle
    /\ sessions_ = <<>>
    /\ total_memory_usage_ = 0
    /\ max_sessions_ \in MaxSessionCounts
    /\ session_timeout_ \in Timeouts
    /\ sm_now = 0
    /\ sm_call = [n |-> 0, op |-> "none", ret |-> FALSE]

notSession == <<allocVars, callerVars, taskVars, limVars, poolVars, objVars,
                resVars, mpVars, lifeVars, stealVars, concVars, mgrVars>>

\* a manager: its sessions and its counter
Manager(sessions, total) == [sessions |-> sessions, total |-> total]

Erase(sessions, id) == [i \in DOMAIN sessions \ {id} |-> sessions[i]]

\* cleanup_expired_sessions_internal: every session whose last access is more
\* than session_timeout_ ago is erased and its memory taken off the counter
RECURSIVE SumUsage(_, _)
SumUsage(sessions, ids) ==
    IF ids = {} THEN 0
    ELSE LET id == CHOOSE i \in ids : TRUE
         IN  sessions[id].memory_usage + SumUsage(sessions, ids \ {id})

cleanup_expired_sessions_internal(m) ==
    LET expired == {id \in DOMAIN m.sessions :
                        sm_now - m.sessions[id].last_access > session_timeout_}
    IN  Manager([id \in DOMAIN m.sessions \ expired |-> m.sessions[id]],
                m.total - SumUsage(m.sessions, expired))

\* evict_oldest_sessions_internal(1): the session that is first in the order
\* of (last_access, id) is erased and its memory taken off the counter
evict_oldest_sessions_internal(m) ==
    IF DOMAIN m.sessions = {} THEN m
    ELSE LET oldest == CHOOSE id \in DOMAIN m.sessions :
                          \A other \in DOMAIN m.sessions :
                             \/ m.sessions[id].last_access < m.sessions[other].last_access
                             \/ /\ m.sessions[id].last_access = m.sessions[other].last_access
                                /\ id <= other
         IN  Manager(Erase(m.sessions, oldest),
                     m.total - m.sessions[oldest].memory_usage)

\* the memory check of create_session
AfterMemoryCheck(m, memory_usage) ==
    IF m.total + memory_usage > MemoryLimit
    THEN LET cleaned == cleanup_expired_sessions_internal(m)
         IN  IF cleaned.total + memory_usage > MemoryLimit
             THEN evict_oldest_sessions_internal(cleaned)
             ELSE cleaned
    ELSE m

\* the session count check of create_session
AfterCountCheck(m) ==
    IF Cardinality(DOMAIN m.sessions) >= max_sessions_
    THEN evict_oldest_sessions_internal(m)
    ELSE m

\* bool create_session(session_id, context_data, memory_usage)
create_session(session_id, memory_usage) ==
    /\ sm_call.n < MaxSessionCalls
    /\ IF session_id \in DOMAIN sessions_
       THEN /\ sm_call' = [n |-> sm_call.n + 1, op |-> "create_session",
                           ret |-> FALSE]
            /\ UNCHANGED <<sessions_, total_memory_usage_>>
       ELSE LET m == AfterCountCheck(
                         AfterMemoryCheck(Manager(sessions_, total_memory_usage_),
                                          memory_usage))
            IN  /\ sessions_' =
                       [id \in DOMAIN m.sessions \cup {session_id} |->
                           IF id = session_id
                           THEN [memory_usage |-> memory_usage,
                                 last_access |-> sm_now]
                           ELSE m.sessions[id]]
                /\ total_memory_usage_' = m.total + memory_usage
                /\ sm_call' = [n |-> sm_call.n + 1, op |-> "create_session",
                               ret |-> TRUE]
    /\ UNCHANGED <<max_sessions_, session_timeout_, sm_now>>
    /\ UNCHANGED notSession

\* get_session(session_id): a session that exists is marked as accessed now
get_session(session_id) ==
    /\ sm_call.n < MaxSessionCalls
    /\ sessions_' = IF session_id \in DOMAIN sessions_
                    THEN [sessions_ EXCEPT ![session_id].last_access = sm_now]
                    ELSE sessions_
    /\ sm_call' = [n |-> sm_call.n + 1, op |-> "get_session",
                   ret |-> session_id \in DOMAIN sessions_]
    /\ UNCHANGED <<total_memory_usage_, max_sessions_, session_timeout_, sm_now>>
    /\ UNCHANGED notSession

\* cleanup_expired_sessions()
cleanup_expired_sessions ==
    /\ sm_call.n < MaxSessionCalls
    /\ LET m == cleanup_expired_sessions_internal(
                    Manager(sessions_, total_memory_usage_))
       IN  /\ sessions_' = m.sessions
           /\ total_memory_usage_' = m.total
           /\ sm_call' = [n |-> sm_call.n + 1, op |-> "cleanup_expired_sessions",
                          ret |-> m.sessions # sessions_]
    /\ UNCHANGED <<max_sessions_, session_timeout_, sm_now>>
    /\ UNCHANGED notSession

\* a minute passes
Minute ==
    /\ sm_now < MaxMinutes
    /\ sm_now' = sm_now + 1
    /\ UNCHANGED <<sessions_, total_memory_usage_, max_sessions_,
                   session_timeout_, sm_call>>
    /\ UNCHANGED notSession

CreateSession == \E id \in SessionIds, memory_usage \in MemoryUsages :
                     create_session(id, memory_usage)
GetSession == \E id \in SessionIds : get_session(id)

SessionNext == CreateSession \/ GetSession \/ cleanup_expired_sessions \/ Minute

SessionSpec == SessionInit /\ [][SessionNext]_vars

\* C29: whenever create_session has returned true, the sum of memory_usage
\* over the stored sessions is the counter total_memory_usage_ and is not
\* larger than the memory limit.
C29_WithinMemoryLimit ==
    (sm_call.op = "create_session" /\ sm_call.ret)
    => /\ SumUsage(sessions_, DOMAIN sessions_) = total_memory_usage_
       /\ total_memory_usage_ <= MemoryLimit

----------------------------------------------------------------------------
\* C30: for every Result built by success(v) or by error(code, message) with
\* any ErrorCode value, exactly one of is_success() and is_error() is true,
\* and is_success() is true if and only if error_code() is ErrorCode::SUCCESS.
C30_SuccessIffSuccessCode ==
    ops = <<>> =>
        /\ is_success(cur) # is_error(cur)
        /\ is_success(cur) <=> cur.error_code = "SUCCESS"

====
